---------------------------- MODULE Spec2Model ----------------------------
(***************************************************************************)
(* fortimanager-mcp: the task completion poller wait_for_task              *)
(* (src/fortimanager_mcp/tools/system_tools.py), the FortiManager client   *)
(* it calls (src/fortimanager_mcp/api/client.py), the error mapping of     *)
(* src/fortimanager_mcp/utils/errors.py and the bearer-token middleware of *)
(* src/fortimanager_mcp/server.py.                                         *)
(*                                                                         *)
(* Spec / LiveSpec: one behaviour is one invocation of wait_for_task.  The *)
(* coroutine is cut at its two await points: Start runs from the entry to  *)
(* the first await client.get_task, FetchReturn / FetchRaise run from the  *)
(* completion of that await to the next await (or to a return), SleepDone  *)
(* runs from the completion of await asyncio.sleep to the next await (or   *)
(* to a return).                                                           *)
(*                                                                         *)
(* ClientSpec: one behaviour is a sequence of calls on one                 *)
(* FortiManagerClient (connect, disconnect, the request methods) and of    *)
(* tool functions that look the client up.                                 *)
(*                                                                         *)
(* AuthSpec: one behaviour is one request through AuthMiddleware.          *)
(* ErrorSpec: one behaviour is one call of utils.errors.parse_fmg_error.   *)
(*                                                                         *)
(* CancelSpec: the invocation, which the awaiting context may cancel while *)
(* it is suspended.  SharedSpec: the invocation on a client that another   *)
(* caller disconnects.  PairSpec: two invocations on the one event loop    *)
(* and the one client, with the times at which their timers fire.          *)
(* LifeSpec: the lifespan of the server (startup, serving, shutdown) in    *)
(* stdio and in HTTP mode.  DispatchSpec: one call of                      *)
(* execute_fortimanager_tool, the tool it waits for, and what the loop     *)
(* runs meanwhile.                                                         *)
(*                                                                         *)
(* Python strings that the code transforms (the task state, the messages)  *)
(* are sequences of tokens: a state label is a sequence of one-character   *)
(* strings, so that str.lower() is computed character by character.        *)
(***************************************************************************)
EXTENDS Integers, Sequences, FiniteSets, TLC

VARIABLES
    task_id,        \* argument task_id
    timeout,        \* argument timeout
    poll_interval,  \* argument poll_interval
    client,         \* what get_fmg_client() returns: "none" or "connected"
    clock,          \* asyncio.get_event_loop().time()
    start_time,     \* local start_time
    pc,             \* "start", "fetching", "sleeping", "done"
    ret,            \* which exit was taken: "none", "timeout", "completed",
                    \* "except" (the except Exception handler), "raised"
    task,           \* local task: the payload of the last successful fetch
    result,         \* the returned dict
    exc,            \* the exception raised inside the try block, if any
    fetches,        \* history: number of client.get_task calls made
    sleeps,         \* history: number of asyncio.sleep calls made
    trace,          \* history: the calls made, in order
    nonterm,        \* history: fetches that returned a non-terminal state
    allRunning,     \* history: every fetch so far returned state "running"
    maxLatency,     \* history: the longest fetch so far
    exactSleeps,    \* history: every sleep so far lasted exactly poll_interval
                    \* and no time passed between the first two readings of the clock
    shadow,         \* the same invocation fed the relabelled responses
    fetchesDone,    \* history: client.get_task calls that returned or raised
    sent,           \* history: the requests handed to the backend, in order
    connected,      \* FortiManagerClient._connected
    fmg,            \* FortiManagerClient._fmg: 0 is None, n > 0 the n-th handle
    created,        \* history: backend handles constructed
    logins,         \* history: backend login calls
    logouts,        \* history: backend logout calls
    ops,            \* history: calls made on the client and the tools
    creds,          \* the credentials of the settings
    out,            \* the outcome of the last call on the client
    pre,            \* the client as it was when the last call was made
    toolres,        \* the outcome of the last tool function called
    http,           \* one request at AuthMiddleware and what became of it
    perr,           \* one call of utils.errors.parse_fmg_error and its result
    pair,           \* two invocations of wait_for_task on one event loop
    life,           \* the server lifespan: startup, serving, shutdown
    disp            \* one call of execute_fortimanager_tool and what became of it

pollVars == <<task_id, timeout, poll_interval, clock, start_time, pc, ret,
              task, result, exc, fetches, sleeps, trace, nonterm, allRunning,
              maxLatency, exactSleeps, shadow, fetchesDone>>
clientVars == <<connected, fmg, created, logins, logouts, ops, creds, out, pre,
                toolres>>
sideVars == <<http, perr, pair, life, disp>>

vars == <<pollVars, client, sent, clientVars, sideVars>>

---------------------------------------------------------------------------
(* Bounds of the model. *)

MaxTaskId == 1
MaxTimeout == 3
MaxPoll == 2
MaxLatency == 1
MaxOversleep == 1
MaxStartClock == 1
MaxReadLag == 1

TaskIds == 1..MaxTaskId
\* timeout is not validated by the code: negative and zero are accepted.
Timeouts == -1..MaxTimeout
PollIntervals == 1..MaxPoll
\* <<timeout, poll_interval>> of an invocation; <<10, 5>> is the spec's
\* timeout scenario.
Budgets == (Timeouts \X PollIntervals) \cup {<<10, 5>>}
Latencies == 0..MaxLatency
Oversleeps == 0..MaxOversleep
StartClocks == 0..MaxStartClock
\* The time that passes between the reading of the clock for start_time
\* (line 414) and its first reading in the loop (line 417).
ReadLags == 0..MaxReadLag

\* No run of the code reaches this many fetches; it only stops a faulty loop.
FetchCap == MaxTimeout + 2

---------------------------------------------------------------------------
(* Python values. *)

StrVal(s) == [type |-> "str", s |-> s, i |-> 0]
IntVal(n) == [type |-> "int", s |-> <<>>, i |-> n]
OtherVal == [type |-> "other", s |-> <<>>, i |-> 0]   \* None, a float, a list
EmptyStr == <<>>

LowerChar(c) ==
    CASE c = "A" -> "a" [] c = "B" -> "b" [] c = "C" -> "c" [] c = "D" -> "d"
      [] c = "E" -> "e" [] c = "F" -> "f" [] c = "G" -> "g" [] c = "H" -> "h"
      [] c = "I" -> "i" [] c = "J" -> "j" [] c = "K" -> "k" [] c = "L" -> "l"
      [] c = "M" -> "m" [] c = "N" -> "n" [] c = "O" -> "o" [] c = "P" -> "p"
      [] c = "Q" -> "q" [] c = "R" -> "r" [] c = "S" -> "s" [] c = "T" -> "t"
      [] c = "U" -> "u" [] c = "V" -> "v" [] c = "W" -> "w" [] c = "X" -> "x"
      [] c = "Y" -> "y" [] c = "Z" -> "z"
      [] OTHER -> c

Lower(s) == [k \in DOMAIN s |-> LowerChar(s[k])]

DigitChar(d) ==
    CASE d = 0 -> "0" [] d = 1 -> "1" [] d = 2 -> "2" [] d = 3 -> "3"
      [] d = 4 -> "4" [] d = 5 -> "5" [] d = 6 -> "6" [] d = 7 -> "7"
      [] d = 8 -> "8" [] d = 9 -> "9"

RECURSIVE NatStr(_)
NatStr(n) == IF n < 10 THEN <<DigitChar(n)>>
             ELSE NatStr(n \div 10) \o <<DigitChar(n % 10)>>

\* str(n) of an int, as f"{n}" renders it
IntStr(n) == IF n < 0 THEN <<"-">> \o NatStr(0 - n) ELSE NatStr(n)

---------------------------------------------------------------------------
(* What client.get_task can deliver. *)

\* State labels as the backend writes them.
PENDING == <<"p","e","n","d","i","n","g">>
RUNNING == <<"r","u","n","n","i","n","g">>
DONE == <<"d","o","n","e">>
ERROR == <<"e","r","r","o","r">>
CANCELLED == <<"c","a","n","c","e","l","l","e","d">>
CANCELLING == <<"c","a","n","c","e","l","l","i","n","g">>
UNKNOWN == <<"u","n","k","n","o","w","n">>

RawStates ==
    { StrVal(PENDING), StrVal(RUNNING), StrVal(DONE), StrVal(ERROR),
      StrVal(CANCELLED), StrVal(CANCELLING),
      StrVal(<<"D","O","N","E">>), StrVal(<<"E","r","r","o","r">>),
      StrVal(<<"C","a","n","c","e","l","l","e","d">>),
      OtherVal }
    \cup { IntVal(n) : n \in 0..5 }

\* A task dict with a "state" key, a task dict without one, and a response
\* that is no dict at all (client.get returns whatever the backend sent).
TaskDict(v, pct) == [kind |-> "dict", has_state |-> TRUE, state |-> v, percent |-> pct]
TaskNoState(pct) == [kind |-> "dict", has_state |-> FALSE, state |-> OtherVal, percent |-> pct]
NotADict == [kind |-> "none", has_state |-> FALSE, state |-> OtherVal, percent |-> 0]
Unbound == [kind |-> "unbound", has_state |-> FALSE, state |-> OtherVal, percent |-> 0]

Responses ==
    { TaskDict(v, 0) : v \in RawStates }
    \cup { TaskDict(StrVal(RUNNING), 50), TaskDict(StrVal(DONE), 100) }
    \cup { TaskNoState(0), NotADict }

\* f"Task {task_id} timed out after {timeout} seconds"
TimeoutMessage(tid, t) ==
    <<"Task ">> \o IntStr(tid) \o <<" timed out after ">> \o IntStr(t) \o <<" seconds">>

NotConnectedMessage == <<"Not connected. Call connect() first.">>
NotInitializedMessage == <<"FortiManager client not initialized">>
NoGetMessage == <<"'NoneType' object has no attribute 'get'">>

\* f"{operation}: {base_msg} - {message}" with operation f"GET /task/task/{task_id}"
ApiErrorMessage(tid) ==
    <<"GET /task/task/">> \o IntStr(tid) \o <<": ", "Object not found", " - ", "no such task">>

Exc(cls, isExc, origin, msg) ==
    [cls |-> cls, is_exception |-> isExc, origin |-> origin, msg |-> msg]
NoExc == Exc("none", FALSE, "none", <<>>)

\* What the fetch can raise: the client's own errors, any error of the backend
\* library (whose text is arbitrary: one of them reads like the timeout
\* message), and an exception that is not an Exception.
FetchExceptions(tid, t) ==
    { Exc("ConnectionError", TRUE, "fetch", NotConnectedMessage),
      Exc("APIError", TRUE, "fetch", ApiErrorMessage(tid)),
      Exc("FMGBaseException", TRUE, "fetch", TimeoutMessage(tid, t)),
      Exc("KeyboardInterrupt", FALSE, "fetch", <<>>) }

---------------------------------------------------------------------------
(* wait_for_task, lines 412-447. *)

\* task.get(key): None when the key is missing
DictGet(t) == IF t.has_state THEN t.state ELSE OtherVal
\* task.get(key, ""): the default when the key is missing
DictGetDefault(t) == IF t.has_state THEN t.state ELSE StrVal(EmptyStr)

IsStr(v) == v.type = "str"
IsInt(v) == v.type = "int"

\* A table that lacks the code of "done".
state_map_NoDone(n) ==
    CASE n = 0 -> PENDING [] n = 1 -> RUNNING
      [] n = 5 -> ERROR [] n = 3 -> CANCELLED [] OTHER -> UNKNOWN

\* state_map.get(code, "unknown")
state_map(n) ==
    CASE n = 0 -> PENDING [] n = 1 -> RUNNING [] n = 4 -> DONE
      [] n = 5 -> ERROR [] n = 3 -> CANCELLED [] OTHER -> UNKNOWN

\* lines 426-431
NormalizeState(t) ==
    LET s0 == IF IsStr(DictGet(t)) THEN Lower(DictGetDefault(t).s) ELSE EmptyStr
    IN IF IsInt(DictGet(t)) THEN state_map(t.state.i) ELSE s0

\* The default label of the table taken for a final state too.
IsCompleted_AlsoUnknown(state) == state \in {DONE, ERROR, CANCELLED, UNKNOWN}

\* line 434
IsCompleted(state) == state \in {DONE, ERROR, CANCELLED}

\* The comparison one second late.
TimedOut_OffByOne(now, start, t) == now - start > t + 1

\* line 418
TimedOut(now, start, t) == now - start > t

\* lines 419-423
TimeoutResult(tid, t) ==
    [status |-> "error", completed |-> FALSE, message |-> TimeoutMessage(tid, t)]

\* The status taken from the completed flag instead of the state.
CompletedResult_AlwaysSuccess(t, state) ==
    [status |-> "success",
     task |-> t,
     completed |-> TRUE,
     message |-> <<"Task completed with state: ">> \o state]

\* lines 435-440
CompletedResult(t, state) ==
    [status |-> IF state = DONE THEN "success" ELSE "error",
     task |-> t,
     completed |-> TRUE,
     message |-> <<"Task completed with state: ">> \o state]

\* line 447
ErrorResult(e) ==
    [status |-> "error", completed |-> FALSE, message |-> e.msg]

\* No handler: every exception leaves wait_for_task.
Caught_Nothing(e) == FALSE

\* A handler of BaseException.
Caught_All(e) == TRUE

\* line 445: except Exception
Caught(e) == e.is_exception

\* A fixed one-second interval instead of the argument.
SleepArg_Fixed(p) == 1

\* line 443: the argument of asyncio.sleep
SleepArg(p) == p

NoResult == [none |-> TRUE]

\* The timeout raised instead of returned.
LoopTop_Raises(now, start, t, tid) ==
    IF TimedOut(now, start, t)
    THEN [pc |-> "done", ret |-> "raised", result |-> NoResult]
    ELSE [pc |-> "fetching", ret |-> "none", result |-> NoResult]

\* The elapsed time never compared with the timeout.
LoopTop_NoTimeout(now, start, t, tid) ==
    [pc |-> "fetching", ret |-> "none", result |-> NoResult]

\* The timeout result produced and the loop going on.
LoopTop_KeepsPolling(now, start, t, tid) ==
    IF TimedOut(now, start, t)
    THEN [pc |-> "fetching", ret |-> "timeout", result |-> TimeoutResult(tid, t)]
    ELSE [pc |-> "fetching", ret |-> "none", result |-> NoResult]

\* One pass from the top of the while loop (lines 417-425) at loop time now:
\* the timeout return, or the call of client.get_task.
LoopTop(now, start, t, tid) ==
    IF TimedOut(now, start, t)
    THEN [pc |-> "done", ret |-> "timeout", result |-> TimeoutResult(tid, t)]
    ELSE [pc |-> "fetching", ret |-> "none", result |-> NoResult]

\* The loop going on after an exception.
OnRaise_Retry(e) ==
    IF Caught(e)
    THEN [pc |-> "sleeping", ret |-> "none", result |-> NoResult]
    ELSE [pc |-> "done", ret |-> "raised", result |-> NoResult]

\* The exception leaves the try block (lines 445-447).
OnRaise(e) ==
    IF Caught(e)
    THEN [pc |-> "done", ret |-> "except", result |-> ErrorResult(e)]
    ELSE [pc |-> "done", ret |-> "raised", result |-> NoResult]

\* task.get on a response that is no dict
AttributeError == Exc("AttributeError", TRUE, "payload", NoGetMessage)

\* The timeout looked at again when the fetch returns.
OnFetch_Deadline(t) ==
    IF t.kind # "dict"
    THEN OnRaise(AttributeError)
    ELSE IF TimedOut(clock', start_time, timeout)
         THEN [pc |-> "done", ret |-> "timeout", result |-> TimeoutResult(task_id, timeout)]
         ELSE IF IsCompleted(NormalizeState(t))
              THEN [pc |-> "done", ret |-> "completed",
                    result |-> CompletedResult(t, NormalizeState(t))]
              ELSE [pc |-> "sleeping", ret |-> "none", result |-> NoResult]

\* The next fetch made at once, with no suspension.
OnFetch_NoSleep(t) ==
    IF t.kind # "dict"
    THEN OnRaise(AttributeError)
    ELSE IF IsCompleted(NormalizeState(t))
         THEN [pc |-> "done", ret |-> "completed",
               result |-> CompletedResult(t, NormalizeState(t))]
         ELSE [pc |-> "fetching", ret |-> "none", result |-> NoResult]

\* From the return of client.get_task (line 425) to the return at line 435 or
\* the call of asyncio.sleep at line 443.
OnFetch(t) ==
    IF t.kind # "dict"
    THEN OnRaise(AttributeError)
    ELSE IF IsCompleted(NormalizeState(t))
         THEN [pc |-> "done", ret |-> "completed",
               result |-> CompletedResult(t, NormalizeState(t))]
         ELSE [pc |-> "sleeping", ret |-> "none", result |-> NoResult]

\* asyncio.CancelledError, thrown into the coroutine at the await it is
\* suspended at; it is a BaseException, no Exception.
CancelledError == Exc("CancelledError", FALSE, "cancel", <<>>)

\* _get_client, lines 14-19
GetClientFails(c) == c = "none"
RuntimeError == Exc("RuntimeError", TRUE, "get_client", NotInitializedMessage)

---------------------------------------------------------------------------
(* FortiManagerClient, api/client.py. *)

\* Calls made in one behaviour of ClientSpec.
MaxOps == 2

\* What the backend library hands back as the response of a request: kind is
\* its Python type, n its length or value (0 is falsy), repr its str(), and
\* for a dict, whether response["status"]["message"] is there and what it is.
Payload(kind, has_msg, msg, repr, n) ==
    [kind |-> kind, has_msg |-> has_msg, msg |-> msg, repr |-> repr, n |-> n]
DictWithMessage ==
    Payload("dict", TRUE, <<"Object does not exist">>,
            <<"{'status': {'code': -3, 'message': 'Object does not exist'}}">>, 1)
DictPlain == Payload("dict", FALSE, <<>>, <<"{'name': 'FGT1'}">>, 1)
ListTwo == Payload("list", FALSE, <<>>, <<"[{'id': 1}, {'id': 2}]">>, 2)
NonePayload == Payload("none", FALSE, <<>>, <<"None">>, 0)
IntPayload == Payload("int", FALSE, <<>>, <<"7">>, 7)
StrPayload == Payload("str", FALSE, <<>>, <<"Invalid url">>, 1)
NoPayload == Payload("absent", FALSE, <<>>, <<>>, 0)
Payloads == {DictWithMessage, DictPlain, ListTwo, NonePayload, IntPayload, StrPayload}

\* repr() of the value, which str() of a list shows of its elements: the
\* str() but for a str, which comes in quotes.
PyRepr(v) == IF v.kind = "str" THEN <<"'">> \o v.repr \o <<"'">> ELSE v.repr

\* [] and [result]
EmptyList == Payload("list", FALSE, <<>>, <<"[]">>, 0)
ListOfOne(r) == Payload("list", FALSE, <<>>, <<"[">> \o PyRepr(r) \o <<"]">>, 1)

\* The codes of error_map, success, and codes outside the map.
ClientCodes == {0, -1, -2, -3, -6, -7, -10, -11, -20, -99, 1}

\* (code, response) of a backend request, or the exception the library
\* raises: an Exception, or one that is no Exception (KeyboardInterrupt) and
\* passes every "except Exception".
Reply(raised, code, data) ==
    [raised |-> raised, code |-> code, data |-> data, interrupt |-> FALSE]
BackendRaises == Reply(TRUE, 0, NoPayload)
BackendInterrupted == [BackendRaises EXCEPT !.interrupt = TRUE]
NoReply == Reply(FALSE, 0, NoPayload)
\* A success carries any payload; an error a dict with or without a status
\* message, or a string.
Replies ==
    { Reply(FALSE, 0, d) : d \in Payloads }
    \cup { Reply(FALSE, c, d) : c \in ClientCodes \ {0},
                                d \in {DictWithMessage, DictPlain, StrPayload} }
    \cup {BackendRaises, BackendInterrupted}

\* (code, response) of login, or the exception it raises.
LoginReplies == { Reply(FALSE, 0, DictPlain), Reply(FALSE, -11, DictWithMessage),
                  Reply(FALSE, -11, DictPlain), BackendRaises }
\* logout returns, raises an Exception or raises a KeyboardInterrupt.
LogoutReplies == { Reply(FALSE, 0, DictPlain), BackendRaises, BackendInterrupted }

Credentials == {"token", "userpass", "none"}

\* A request method of the client: the generic operation it calls, the url
\* it passes and what it does to the payload that comes back.
Method(name, verb, url, post) == [name |-> name, verb |-> verb, url |-> url, post |-> post]
Verbs == {"get", "add", "set", "update", "delete", "execute"}
DeviceUrl == <<"/dvmdb/adom/root/device">>
\* f"/task/task/{task_id}"
TaskUrl(tid) == <<"/task/task/">> \o IntStr(tid)
\* get_task with the task deleted instead of read.
get_task_Delete(tid) == Method("get_task", "delete", TaskUrl(tid), "none")
get_task(tid) == Method("get_task", "get", TaskUrl(tid), "none")
\* The request methods built on the generic operations, lines 248-1641, each
\* with the operation it awaits, the url it builds (adom "root", package
\* "default", object "n1", device "FGT1", template "tpl", template group
\* "grp", ids 1, no device for the script logs) and what it does to the
\* payload: nothing, `result if isinstance(result, list) else [result] if
\* result else []`, or `result if isinstance(result, int) else 0`.
ClientMethods ==
    { Method("get_system_status", "get", <<"/sys/status">>, "none"),
      Method("get_ha_status", "get", <<"/sys/ha/status">>, "none"),
      Method("list_adoms", "get", <<"/dvmdb/adom">>, "list"),
      Method("get_adom", "get", <<"/dvmdb/adom/n1">>, "none"),
      Method("list_devices", "get", <<"/dvmdb/adom/root/device">>, "list"),
      Method("get_device", "get", <<"/dvmdb/adom/root/device/FGT1">>, "none"),
      Method("list_device_vdoms", "get", <<"/dvmdb/adom/root/device/FGT1/vdom">>, "list"),
      Method("list_device_groups", "get", <<"/dvmdb/adom/root/group">>, "list"),
      Method("add_device", "execute", <<"/dvm/cmd/add/device">>, "none"),
      Method("delete_device", "execute", <<"/dvm/cmd/del/device">>, "none"),
      Method("reload_device_list", "execute", <<"/dvm/cmd/reload/dev-list">>, "none"),
      Method("add_device_list", "execute", <<"/dvm/cmd/add/dev-list">>, "none"),
      Method("delete_device_list", "execute", <<"/dvm/cmd/del/dev-list">>, "none"),
      Method("update_device", "update", <<"/dvmdb/adom/root/device/FGT1">>, "none"),
      Method("get_device_status", "get", <<"/dvmdb/adom/root/device">>, "list"),
      Method("list_tasks", "get", <<"/task/task">>, "list"),
      get_task(1),
      Method("get_task_line", "get", <<"/task/task/1/line">>, "list"),
      Method("install_package", "execute", <<"/securityconsole/install/package">>, "none"),
      Method("install_device", "execute", <<"/securityconsole/install/device">>, "none"),
      Method("install_preview", "execute", <<"/securityconsole/install/preview">>, "none"),
      Method("get_preview_result", "execute", <<"/securityconsole/preview/result">>, "none"),
      Method("list_packages", "get", <<"/pm/pkg/adom/root">>, "list"),
      Method("get_package", "get", <<"/pm/pkg/adom/root/default">>, "none"),
      Method("create_package", "add", <<"/pm/pkg/adom/root">>, "none"),
      Method("delete_package", "delete", <<"/pm/pkg/adom/root/default">>, "none"),
      Method("clone_package", "execute", <<"/securityconsole/package/clone">>, "none"),
      Method("assign_package", "update", <<"/pm/pkg/adom/root/default">>, "none"),
      Method("list_firewall_policies", "get", <<"/pm/config/adom/root/pkg/default/firewall/policy">>, "list"),
      Method("get_firewall_policy", "get", <<"/pm/config/adom/root/pkg/default/firewall/policy/1">>, "none"),
      Method("get_firewall_policy_count", "get", <<"/pm/config/adom/root/pkg/default/firewall/policy">>, "int"),
      Method("create_firewall_policy", "add", <<"/pm/config/adom/root/pkg/default/firewall/policy">>, "none"),
      Method("update_firewall_policy", "update", <<"/pm/config/adom/root/pkg/default/firewall/policy/1">>, "none"),
      Method("delete_firewall_policy", "delete", <<"/pm/config/adom/root/pkg/default/firewall/policy/1">>, "none"),
      Method("delete_firewall_policies", "delete", <<"/pm/config/adom/root/pkg/default/firewall/policy">>, "none"),
      Method("move_firewall_policy", "execute", <<"/securityconsole/move">>, "none"),
      Method("list_addresses", "get", <<"/pm/config/adom/root/obj/firewall/address">>, "list"),
      Method("get_address", "get", <<"/pm/config/adom/root/obj/firewall/address/n1">>, "none"),
      Method("create_address", "add", <<"/pm/config/adom/root/obj/firewall/address">>, "none"),
      Method("update_address", "update", <<"/pm/config/adom/root/obj/firewall/address/n1">>, "none"),
      Method("delete_address", "delete", <<"/pm/config/adom/root/obj/firewall/address/n1">>, "none"),
      Method("list_address_groups", "get", <<"/pm/config/adom/root/obj/firewall/addrgrp">>, "list"),
      Method("get_address_group", "get", <<"/pm/config/adom/root/obj/firewall/addrgrp/n1">>, "none"),
      Method("create_address_group", "add", <<"/pm/config/adom/root/obj/firewall/addrgrp">>, "none"),
      Method("update_address_group", "update", <<"/pm/config/adom/root/obj/firewall/addrgrp/n1">>, "none"),
      Method("delete_address_group", "delete", <<"/pm/config/adom/root/obj/firewall/addrgrp/n1">>, "none"),
      Method("list_services", "get", <<"/pm/config/adom/root/obj/firewall/service/custom">>, "list"),
      Method("get_service", "get", <<"/pm/config/adom/root/obj/firewall/service/custom/n1">>, "none"),
      Method("create_service", "add", <<"/pm/config/adom/root/obj/firewall/service/custom">>, "none"),
      Method("update_service", "update", <<"/pm/config/adom/root/obj/firewall/service/custom/n1">>, "none"),
      Method("delete_service", "delete", <<"/pm/config/adom/root/obj/firewall/service/custom/n1">>, "none"),
      Method("list_service_groups", "get", <<"/pm/config/adom/root/obj/firewall/service/group">>, "list"),
      Method("get_service_group", "get", <<"/pm/config/adom/root/obj/firewall/service/group/n1">>, "none"),
      Method("create_service_group", "add", <<"/pm/config/adom/root/obj/firewall/service/group">>, "none"),
      Method("delete_service_group", "delete", <<"/pm/config/adom/root/obj/firewall/service/group/n1">>, "none"),
      Method("lock_adom", "execute", <<"/dvmdb/adom/root/workspace/lock">>, "none"),
      Method("unlock_adom", "execute", <<"/dvmdb/adom/root/workspace/unlock">>, "none"),
      Method("commit_adom", "execute", <<"/dvmdb/adom/root/workspace/commit">>, "none"),
      Method("proxy_call", "execute", <<"/sys/proxy/json">>, "none"),
      Method("list_scripts", "get", <<"/dvmdb/adom/root/script">>, "list"),
      Method("get_script", "get", <<"/dvmdb/adom/root/script/n1">>, "none"),
      Method("create_script", "add", <<"/dvmdb/adom/root/script">>, "none"),
      Method("update_script", "update", <<"/dvmdb/adom/root/script/n1">>, "none"),
      Method("delete_script", "delete", <<"/dvmdb/adom/root/script/n1">>, "none"),
      Method("execute_script", "execute", <<"/dvmdb/adom/root/script/execute">>, "none"),
      Method("get_script_log_latest", "get", <<"/dvmdb/adom/root/script/log/latest">>, "none"),
      Method("get_script_log_summary", "get", <<"/dvmdb/adom/root/script/log/summary">>, "list"),
      Method("get_script_log_output", "get", <<"/dvmdb/adom/root/script/log/output/logid/1">>, "none"),
      Method("list_templates", "get", <<"/pm/template/adom/root">>, "list"),
      Method("get_template", "get", <<"/pm/template/adom/root/n1">>, "none"),
      Method("list_system_templates", "get", <<"/pm/devprof/adom/root">>, "list"),
      Method("get_system_template", "get", <<"/pm/devprof/adom/root/n1">>, "none"),
      Method("assign_system_template", "add", <<"/pm/devprof/adom/root/tpl/scope member">>, "none"),
      Method("unassign_system_template", "delete", <<"/pm/devprof/adom/root/tpl/scope member">>, "none"),
      Method("list_cli_template_groups", "get", <<"/pm/config/adom/root/obj/cli/template-group">>, "list"),
      Method("get_cli_template_group", "get", <<"/pm/config/adom/root/obj/cli/template-group/n1">>, "none"),
      Method("create_cli_template_group", "add", <<"/pm/config/adom/root/obj/cli/template-group">>, "none"),
      Method("delete_cli_template_group", "delete", <<"/pm/config/adom/root/obj/cli/template-group/n1">>, "none"),
      Method("list_template_groups", "get", <<"/pm/tmplgrp/adom/root">>, "list"),
      Method("get_template_group", "get", <<"/pm/tmplgrp/adom/root/n1">>, "none"),
      Method("create_template_group", "add", <<"/pm/tmplgrp/adom/root">>, "none"),
      Method("assign_template_group", "add", <<"/pm/tmplgrp/adom/root/grp/scope member">>, "none"),
      Method("validate_template", "execute", <<"/securityconsole/template/validate">>, "none"),
      Method("list_sdwan_templates", "get", <<"/pm/wanprof/adom/root">>, "list"),
      Method("get_sdwan_template", "get", <<"/pm/wanprof/adom/root/n1">>, "none"),
      Method("create_sdwan_template", "add", <<"/pm/wanprof/adom/root">>, "none"),
      Method("delete_sdwan_template", "delete", <<"/pm/wanprof/adom/root/n1">>, "none"),
      Method("assign_sdwan_template", "add", <<"/pm/wanprof/adom/root/tpl/scope member">>, "none"),
      Method("unassign_sdwan_template", "delete", <<"/pm/wanprof/adom/root/tpl/scope member">>, "none") }
MethodNamed(n) == CHOOSE m \in ClientMethods : m.name = n
Generic(verb) == Method(verb, verb, DeviceUrl, "none")
\* The methods called on the client directly: the six operations, and of
\* the methods built on them one of each kind.
Methods ==
    { Generic(v) : v \in Verbs }
    \cup { get_task(tid) : tid \in TaskIds }
    \cup { MethodNamed("list_tasks"), MethodNamed("get_firewall_policy_count") }

\* The replies tried under a tool function.
ToolReplies == { Reply(FALSE, 0, ListTwo), Reply(FALSE, 0, DictPlain),
                 Reply(FALSE, -3, DictWithMessage), BackendRaises, BackendInterrupted }

\* What the backend is asked: fmg.<verb>(url)
Request(m) == [method |-> m.verb, url |-> m.url]

\* The outcome of a call: a returned value or a raised exception.  The client
\* raises its exceptions with a message only, so their code attribute is None
\* (has_code is false).
Returned(v) ==
    [kind |-> "return", cls |-> "none", msg |-> <<>>, value |-> v,
     has_code |-> FALSE, code |-> 0]
Raised(cls, msg) ==
    [kind |-> "raise", cls |-> cls, msg |-> msg, value |-> NoPayload,
     has_code |-> FALSE, code |-> 0]
NoOutcome ==
    [kind |-> "none", cls |-> "none", msg |-> <<>>, value |-> NoPayload,
     has_code |-> FALSE, code |-> 0]

\* error_map.get(code, f"Unknown error (code {code})")
ClientBaseMsg(code) ==
    CASE code = -1 -> <<"General error">>
      [] code = -2 -> <<"Invalid parameters">>
      [] code = -3 -> <<"Object not found">>
      [] code = -6 -> <<"Object already exists">>
      [] code = -10 -> <<"Invalid session">>
      [] code = -11 -> <<"No permission">>
      [] OTHER -> <<"Unknown error (code ">> \o IntStr(code) \o <<")">>

\* The backend code kept in the exception.
client_parse_fmg_error_KeepsCode(code, message, operation) ==
    [kind |-> "raise", cls |-> "APIError",
     msg |-> operation \o <<": ">> \o ClientBaseMsg(code) \o <<" - ">> \o message,
     value |-> NoPayload, has_code |-> TRUE, code |-> code]

\* parse_fmg_error of api/client.py:
\* f"{operation}: {base_msg} - {message}", or f"{base_msg} - {message}"
client_parse_fmg_error(code, message, operation) ==
    Raised("APIError",
           IF operation # <<>>
           THEN operation \o <<": ">> \o ClientBaseMsg(code) \o <<" - ">> \o message
           ELSE ClientBaseMsg(code) \o <<" - ">> \o message)

\* response.get("status", {}).get("message", str(response)), or str(response)
ErrorMsg(response) ==
    IF response.kind = "dict" /\ response.has_msg THEN response.msg ELSE response.repr

\* The response handed back whatever the code.
handle_response_IgnoresCode(code, response, operation) == Returned(response)

\* _handle_response
handle_response(code, response, operation) ==
    IF code = 0
    THEN Returned(response)
    ELSE client_parse_fmg_error(code, ErrorMsg(response), operation)

VerbText(verb) ==
    CASE verb = "get" -> "GET" [] verb = "add" -> "ADD" [] verb = "set" -> "SET"
      [] verb = "update" -> "UPDATE" [] verb = "delete" -> "DELETE"
      [] verb = "execute" -> "EXEC"
\* f"GET {url}"
Operation(m) == <<VerbText(m.verb), " ">> \o m.url

Truthy(v) == v.kind # "none" /\ v.n # 0
\* result if isinstance(result, list) else [result] if result else []
AsList(v) == IF v.kind = "list" THEN v ELSE IF Truthy(v) THEN ListOfOne(v) ELSE EmptyList
\* result if isinstance(result, int) else 0
AsInt(v) == IF v.kind = "int" THEN v ELSE Payload("int", FALSE, <<>>, <<"0">>, 0)
\* What a method built on a generic operation does to the returned payload.
PostProcess(m, o) ==
    IF o.kind # "return" THEN o
    ELSE CASE m.post = "list" -> Returned(AsList(o.value))
           [] m.post = "int" -> Returned(AsInt(o.value))
           [] OTHER -> o

\* The client's fields and the history of its backend calls.
ClientState(c, f, n, li, lo) ==
    [connected |-> c, fmg |-> f, created |-> n, logins |-> li, logouts |-> lo]
NewClient == ClientState(FALSE, 0, 0, 0, 0)
LiveClient == ClientState(TRUE, 1, 1, 1, 0)

\* is_connected
is_connected(st) == st.connected /\ st.fmg # 0

\* A check that lets every call through.
EnsureConnectedFails_Never(st) == FALSE
\* _ensure_connected raises
EnsureConnectedFails(st) == ~st.connected \/ st.fmg = 0

LibraryError == Raised("FMGBaseException", <<"connection reset">>)
Interrupt == Raised("KeyboardInterrupt", <<>>)
\* What a raising backend call raises.
RaisedBy(reply) == IF reply.interrupt THEN Interrupt ELSE LibraryError

\* A request method called on the client in state st, the backend answering
\* reply: the outcome, and the requests handed to the backend.
call(st, m, reply) ==
    IF EnsureConnectedFails(st)
    THEN [res |-> Raised("ConnectionError", NotConnectedMessage), sent |-> <<>>]
    ELSE [res |-> IF reply.raised THEN RaisedBy(reply)
                  ELSE PostProcess(m, handle_response(reply.code, reply.data, Operation(m))),
          sent |-> <<Request(m)>>]

\* response.get("status", {}).get("message", "Login failed")
LoginErrorMsg(r) == IF r.has_msg THEN r.msg ELSE <<"Login failed">>

NoAuthMessage == <<"No authentication provided. Set API token or username/password.">>

\* Logged in: the state after the handle is made and login called.
LoggedIn(st) ==
    [st EXCEPT !.fmg = st.created + 1, !.created = st.created + 1, !.logins = st.logins + 1]

\* connect without the check of _connected.
connect_Again(st, c, lr) ==
    [st |-> [LoggedIn(st) EXCEPT !.connected = TRUE], res |-> Returned(NonePayload)]

\* connect with _connected set before the login is tried.
connect_FlagFirst(st, c, lr) ==
    IF st.connected THEN [st |-> st, res |-> Returned(NonePayload)]
    ELSE IF c = "none"
    THEN [st |-> [st EXCEPT !.connected = TRUE],
          res |-> Raised("AuthenticationError", NoAuthMessage)]
    ELSE IF lr.raised
    THEN [st |-> [LoggedIn(st) EXCEPT !.connected = TRUE],
          res |-> Raised("ConnectionError",
                         <<"Failed to connect to FortiManager: ", "connection refused">>)]
    ELSE IF lr.code # 0
    THEN [st |-> [LoggedIn(st) EXCEPT !.connected = TRUE],
          res |-> Raised("AuthenticationError",
                         <<"FortiManager login failed: ">> \o LoginErrorMsg(lr.data))]
    ELSE [st |-> [LoggedIn(st) EXCEPT !.connected = TRUE], res |-> Returned(NonePayload)]

\* connect with credentials c, login answering lr
connect(st, c, lr) ==
    IF st.connected THEN [st |-> st, res |-> Returned(NonePayload)]
    ELSE IF c = "none"
    THEN [st |-> st, res |-> Raised("AuthenticationError", NoAuthMessage)]
    ELSE IF lr.raised
    THEN [st |-> LoggedIn(st),
          res |-> Raised("ConnectionError",
                         <<"Failed to connect to FortiManager: ", "connection refused">>)]
    ELSE IF lr.code # 0
    THEN [st |-> LoggedIn(st),
          res |-> Raised("AuthenticationError",
                         <<"FortiManager login failed: ">> \o LoginErrorMsg(lr.data))]
    ELSE [st |-> [LoggedIn(st) EXCEPT !.connected = TRUE], res |-> Returned(NonePayload)]

\* disconnect without the finally clause and the except clause.
disconnect_NoFinally(st, lo) ==
    IF ~st.connected \/ st.fmg = 0 THEN [st |-> st, res |-> Returned(NonePayload)]
    ELSE IF lo.raised
    THEN [st |-> [st EXCEPT !.logouts = st.logouts + 1], res |-> RaisedBy(lo)]
    ELSE [st |-> [st EXCEPT !.fmg = 0, !.connected = FALSE, !.logouts = st.logouts + 1],
          res |-> Returned(NonePayload)]

\* disconnect, logout answering lo: an Exception of logout is caught and
\* logged, a KeyboardInterrupt leaves disconnect after the finally clause.
disconnect(st, lo) ==
    IF ~st.connected \/ st.fmg = 0 THEN [st |-> st, res |-> Returned(NonePayload)]
    ELSE [st |-> [st EXCEPT !.fmg = 0, !.connected = FALSE, !.logouts = st.logouts + 1],
          res |-> IF lo.raised /\ lo.interrupt THEN Interrupt ELSE Returned(NonePayload)]

---------------------------------------------------------------------------
(* The tool functions, tools/*.py. *)

\* The modules whose tools call _get_client() inside try and answer an
\* exception with {"status": "error", "message": str(e)} ...
StatusModules == {"system_tools", "dvm_tools", "object_tools", "policy_tools"}
\* ... and the modules whose tools test get_fmg_client() themselves and
\* answer with {"error": ...}.
ErrorKeyModules == {"script_tools", "sdwan_tools", "template_tools"}
ToolModules == StatusModules \cup ErrorKeyModules

NotConnectedToolMessage == <<"FortiManager client not connected">>

\* {"status": "error", "message": str(e)}
StatusError(msg) == [status |-> "error", message |-> msg]
\* {"status": "success", ...}
StatusSuccess(v) == [status |-> "success", data |-> v]
\* {"error": str(e)}
ErrorKeyError(msg) == [error |-> msg]
\* the payload under the tool's own keys, no "status"
ErrorKeySuccess(v) == [data |-> v]

\* A tool function: its module, the client methods it awaits, in order,
\* whether it reads a field of what the call returned (result.get(...))
\* inside its try, and whether what the calls returned goes into its answer
\* (as it is, sliced, counted or copied item by item).  The arguments are
\* such that the tool reaches its calls; get_task is there without and with
\* include_details.  wait_for_task is the invocation modelled apart.
Tool(name, mod, calls, reads, hands) ==
    [name |-> name, module |-> mod, calls |-> calls, reads |-> reads, hands |-> hands]
system_tools ==
    { Tool("get_system_status", "system_tools", <<"get_system_status">>, FALSE, TRUE),
      Tool("get_ha_status", "system_tools", <<"get_ha_status">>, FALSE, TRUE),
      Tool("list_adoms", "system_tools", <<"list_adoms">>, FALSE, TRUE),
      Tool("get_adom", "system_tools", <<"get_adom">>, FALSE, TRUE),
      Tool("list_devices", "system_tools", <<"list_devices">>, FALSE, TRUE),
      Tool("get_device", "system_tools", <<"get_device">>, FALSE, TRUE),
      Tool("list_device_groups", "system_tools", <<"list_device_groups">>, FALSE, TRUE),
      Tool("list_tasks", "system_tools", <<"list_tasks">>, FALSE, TRUE),
      Tool("get_task", "system_tools", <<"get_task">>, FALSE, TRUE),
      Tool("get_task", "system_tools", <<"get_task", "get_task_line">>, FALSE, TRUE),
      Tool("list_packages", "system_tools", <<"list_packages">>, FALSE, TRUE),
      Tool("get_package", "system_tools", <<"get_package">>, FALSE, TRUE),
      Tool("install_package", "system_tools", <<"install_package">>, TRUE, FALSE),
      Tool("install_device_settings", "system_tools", <<"install_device">>, TRUE, FALSE),
      Tool("lock_adom", "system_tools", <<"lock_adom">>, FALSE, FALSE),
      Tool("unlock_adom", "system_tools", <<"unlock_adom">>, FALSE, FALSE),
      Tool("commit_adom", "system_tools", <<"commit_adom">>, FALSE, FALSE) }
dvm_tools ==
    { Tool("list_device_vdoms", "dvm_tools", <<"list_device_vdoms">>, FALSE, TRUE),
      Tool("get_device_status", "dvm_tools", <<"get_device_status">>, FALSE, TRUE),
      Tool("search_devices", "dvm_tools", <<"list_devices">>, FALSE, TRUE),
      Tool("add_device", "dvm_tools", <<"add_device">>, TRUE, FALSE),
      Tool("add_model_device", "dvm_tools", <<"add_device">>, TRUE, FALSE),
      Tool("delete_device", "dvm_tools", <<"delete_device">>, TRUE, FALSE),
      Tool("add_devices_bulk", "dvm_tools", <<"add_device_list">>, TRUE, FALSE),
      Tool("delete_devices_bulk", "dvm_tools", <<"delete_device_list">>, TRUE, FALSE),
      Tool("update_device", "dvm_tools", <<"update_device">>, FALSE, FALSE),
      Tool("reload_device_list", "dvm_tools", <<"reload_device_list">>, FALSE, FALSE),
      Tool("get_device_realtime_status", "dvm_tools", <<"proxy_call">>, FALSE, TRUE),
      Tool("get_device_interfaces", "dvm_tools", <<"proxy_call">>, FALSE, TRUE) }
policy_tools ==
    { Tool("create_package", "policy_tools", <<"create_package">>, FALSE, FALSE),
      Tool("delete_package", "policy_tools", <<"delete_package">>, FALSE, FALSE),
      Tool("clone_package", "policy_tools", <<"clone_package">>, FALSE, FALSE),
      Tool("assign_package", "policy_tools", <<"assign_package">>, FALSE, FALSE),
      Tool("list_firewall_policies", "policy_tools", <<"get_firewall_policy_count", "list_firewall_policies">>, FALSE, TRUE),
      Tool("get_firewall_policy", "policy_tools", <<"get_firewall_policy">>, FALSE, TRUE),
      Tool("create_firewall_policy", "policy_tools", <<"create_firewall_policy">>, TRUE, FALSE),
      Tool("update_firewall_policy", "policy_tools", <<"update_firewall_policy">>, FALSE, FALSE),
      Tool("delete_firewall_policy", "policy_tools", <<"delete_firewall_policy">>, FALSE, FALSE),
      Tool("delete_firewall_policies_bulk", "policy_tools", <<"delete_firewall_policies">>, FALSE, FALSE),
      Tool("move_firewall_policy", "policy_tools", <<"move_firewall_policy">>, FALSE, FALSE),
      Tool("search_firewall_policies", "policy_tools", <<"list_firewall_policies">>, FALSE, TRUE),
      Tool("preview_install", "policy_tools", <<"install_preview">>, TRUE, FALSE),
      Tool("get_preview_result", "policy_tools", <<"get_preview_result">>, FALSE, TRUE) }
object_tools ==
    { Tool("list_addresses", "object_tools", <<"list_addresses">>, FALSE, TRUE),
      Tool("get_address", "object_tools", <<"get_address">>, FALSE, TRUE),
      Tool("create_address_subnet", "object_tools", <<"create_address">>, FALSE, FALSE),
      Tool("create_address_host", "object_tools", <<"create_address">>, FALSE, FALSE),
      Tool("create_address_fqdn", "object_tools", <<"create_address">>, FALSE, FALSE),
      Tool("create_address_range", "object_tools", <<"create_address">>, FALSE, FALSE),
      Tool("update_address", "object_tools", <<"update_address">>, FALSE, FALSE),
      Tool("delete_address", "object_tools", <<"delete_address">>, FALSE, FALSE),
      Tool("list_address_groups", "object_tools", <<"list_address_groups">>, FALSE, TRUE),
      Tool("get_address_group", "object_tools", <<"get_address_group">>, FALSE, TRUE),
      Tool("create_address_group", "object_tools", <<"create_address_group">>, FALSE, FALSE),
      Tool("update_address_group", "object_tools", <<"update_address_group">>, FALSE, FALSE),
      Tool("delete_address_group", "object_tools", <<"delete_address_group">>, FALSE, FALSE),
      Tool("list_services", "object_tools", <<"list_services">>, FALSE, TRUE),
      Tool("get_service", "object_tools", <<"get_service">>, FALSE, TRUE),
      Tool("create_service_tcp_udp", "object_tools", <<"create_service">>, FALSE, FALSE),
      Tool("create_service_icmp", "object_tools", <<"create_service">>, FALSE, FALSE),
      Tool("update_service", "object_tools", <<"update_service">>, FALSE, FALSE),
      Tool("delete_service", "object_tools", <<"delete_service">>, FALSE, FALSE),
      Tool("list_service_groups", "object_tools", <<"list_service_groups">>, FALSE, TRUE),
      Tool("get_service_group", "object_tools", <<"get_service_group">>, FALSE, TRUE),
      Tool("create_service_group", "object_tools", <<"create_service_group">>, FALSE, FALSE),
      Tool("delete_service_group", "object_tools", <<"delete_service_group">>, FALSE, FALSE),
      Tool("search_objects", "object_tools", <<"list_addresses", "list_address_groups", "list_services", "list_service_groups">>, FALSE, TRUE) }
script_tools ==
    { Tool("list_scripts", "script_tools", <<"list_scripts">>, FALSE, TRUE),
      Tool("get_script", "script_tools", <<"get_script">>, FALSE, TRUE),
      Tool("create_script", "script_tools", <<"create_script">>, FALSE, TRUE),
      Tool("update_script", "script_tools", <<"update_script">>, FALSE, TRUE),
      Tool("delete_script", "script_tools", <<"delete_script">>, FALSE, TRUE),
      Tool("execute_script_on_device", "script_tools", <<"execute_script">>, TRUE, TRUE),
      Tool("execute_script_on_devices", "script_tools", <<"execute_script">>, TRUE, TRUE),
      Tool("execute_script_on_device_group", "script_tools", <<"execute_script">>, TRUE, TRUE),
      Tool("execute_script_on_package", "script_tools", <<"execute_script">>, TRUE, TRUE),
      Tool("get_script_log_latest", "script_tools", <<"get_script_log_latest">>, FALSE, TRUE),
      Tool("get_script_log_summary", "script_tools", <<"get_script_log_summary">>, FALSE, TRUE),
      Tool("get_script_log_output", "script_tools", <<"get_script_log_output">>, FALSE, TRUE) }
template_tools ==
    { Tool("list_templates", "template_tools", <<"list_templates">>, FALSE, TRUE),
      Tool("get_template", "template_tools", <<"get_template">>, FALSE, TRUE),
      Tool("list_system_templates", "template_tools", <<"list_system_templates">>, FALSE, TRUE),
      Tool("get_system_template", "template_tools", <<"get_system_template">>, FALSE, TRUE),
      Tool("assign_system_template", "template_tools", <<"assign_system_template">>, FALSE, TRUE),
      Tool("assign_system_template_bulk", "template_tools", <<"assign_system_template">>, FALSE, TRUE),
      Tool("unassign_system_template", "template_tools", <<"unassign_system_template">>, FALSE, TRUE),
      Tool("list_cli_template_groups", "template_tools", <<"list_cli_template_groups">>, FALSE, TRUE),
      Tool("get_cli_template_group", "template_tools", <<"get_cli_template_group">>, FALSE, TRUE),
      Tool("create_cli_template_group", "template_tools", <<"create_cli_template_group">>, FALSE, TRUE),
      Tool("delete_cli_template_group", "template_tools", <<"delete_cli_template_group">>, FALSE, TRUE),
      Tool("list_template_groups", "template_tools", <<"list_template_groups">>, FALSE, TRUE),
      Tool("get_template_group", "template_tools", <<"get_template_group">>, FALSE, TRUE),
      Tool("assign_template_group", "template_tools", <<"assign_template_group">>, FALSE, TRUE),
      Tool("validate_template", "template_tools", <<"validate_template">>, TRUE, TRUE) }
sdwan_tools ==
    { Tool("list_sdwan_templates", "sdwan_tools", <<"list_sdwan_templates">>, FALSE, TRUE),
      Tool("get_sdwan_template", "sdwan_tools", <<"get_sdwan_template">>, FALSE, TRUE),
      Tool("create_sdwan_template", "sdwan_tools", <<"create_sdwan_template">>, FALSE, TRUE),
      Tool("delete_sdwan_template", "sdwan_tools", <<"delete_sdwan_template">>, FALSE, TRUE),
      Tool("assign_sdwan_template", "sdwan_tools", <<"assign_sdwan_template">>, FALSE, TRUE),
      Tool("assign_sdwan_template_bulk", "sdwan_tools", <<"assign_sdwan_template">>, FALSE, TRUE),
      Tool("unassign_sdwan_template", "sdwan_tools", <<"unassign_sdwan_template">>, FALSE, TRUE) }
Tools ==
    system_tools \cup dvm_tools \cup policy_tools \cup object_tools \cup script_tools
    \cup template_tools \cup sdwan_tools
\* The tool of that name that awaits the fewest calls.
ToolNamed(n) ==
    CHOOSE t \in Tools : t.name = n /\ \A u \in Tools : u.name = n => Len(t.calls) <= Len(u.calls)
\* type(value).__name__
TypeName(v) == IF v.kind = "none" THEN "NoneType" ELSE v.kind
\* str() of the AttributeError of result.get on a value that is no dict
NoGetOn(v) == <<"'", TypeName(v), "' object has no attribute 'get'">>

\* An exception that is no Exception: no "except Exception" catches it.
PassesExcept(res) == res.kind = "raise" /\ res.cls \in {"KeyboardInterrupt", "CancelledError"}

\* The value r.res.value of one await put before what the awaits after it
\* gave.
Prepend(r, rest) ==
    [rest EXCEPT !.values = <<r.res.value>> \o rest.values, !.sent = r.sent \o rest.sent]

\* The awaits of the tool in order (calls names the client methods), the
\* backend answering the k-th with replies[k], up to the first that raises:
\* the values returned, the exception if one was raised, and the requests
\* handed to the backend.  AfterCall goes on from the outcome r of one await.
RECURSIVE RunCalls(_, _, _)
RECURSIVE AfterCall(_, _, _, _)
AfterCall(r, st, calls, replies) ==
    IF r.res.kind = "raise"
    THEN [raised |-> TRUE, exc |-> r.res, values |-> <<>>, sent |-> r.sent]
    ELSE Prepend(r, RunCalls(st, calls, replies))
RunCalls(st, calls, replies) ==
    IF calls = <<>> THEN [raised |-> FALSE, exc |-> NoOutcome, values |-> <<>>, sent |-> <<>>]
    ELSE AfterCall(call(st, MethodNamed(Head(calls)), Head(replies)),
                   st, Tail(calls), Tail(replies))

\* What the body of the tool's try comes to once its awaits have given r: the
\* exception that leaves the tool, str(e) of the Exception that ends the try
\* (that of an await, or the AttributeError of result.get on a value that is
\* no dict), or the values that go into the answer (the fields a reading
\* tool asks for are in no payload here: it gets their defaults).
Tried(t, r) ==
    IF r.raised
    THEN [failed |-> TRUE, left |-> PassesExcept(r.exc), msg |-> r.exc.msg,
          values |-> <<>>, sent |-> r.sent]
    ELSE IF t.reads /\ r.values[Len(r.values)].kind # "dict"
    THEN [failed |-> TRUE, left |-> FALSE, msg |-> NoGetOn(r.values[Len(r.values)]),
          values |-> <<>>, sent |-> r.sent]
    ELSE [failed |-> FALSE, left |-> FALSE, msg |-> <<>>,
          values |-> IF t.hands THEN r.values ELSE <<>>, sent |-> r.sent]
TryBody(t, st, replies) == Tried(t, RunCalls(st, t.calls, replies))

\* The tool is left by an exception that its except clause does not catch.
Leaves == [raised |-> "KeyboardInterrupt"]

\* What the tool makes of the body b of its try: the error shape of its
\* module, the success shape, or nothing when the exception leaves it.
Answer(t, b) ==
    [result |-> IF b.left THEN Leaves
                ELSE IF t.module \in StatusModules
                THEN (IF b.failed THEN StatusError(b.msg) ELSE StatusSuccess(b.values))
                ELSE (IF b.failed THEN ErrorKeyError(b.msg) ELSE ErrorKeySuccess(b.values)),
     sent |-> b.sent, raised |-> b.left]

\* The tool t, get_fmg_client() returning c ("none" for None), the client
\* being in state st and the backend answering the k-th request with
\* replies[k].
tool(t, c, st, replies) ==
    IF t.module \in StatusModules /\ GetClientFails(c)
    THEN [result |-> StatusError(RuntimeError.msg), sent |-> <<>>, raised |-> FALSE]
    ELSE IF t.module \notin StatusModules /\ c = "none"
    THEN [result |-> ErrorKeyError(NotConnectedToolMessage), sent |-> <<>>, raised |-> FALSE]
    ELSE Answer(t, TryBody(t, st, replies))

---------------------------------------------------------------------------
(* AuthMiddleware.__call__, server.py. *)

\* Entries of scope["headers"] in one request.
MaxHeaders == 2

\* A header value: its bytes are valid UTF-8 (and decode to text) or not.
Bytes(text) == [utf8 |-> TRUE, text |-> text]
BadBytes == [utf8 |-> FALSE, text |-> <<"Bearer ", "\\xff">>]
Secret == <<"s3cret">>
HeaderValues ==
    { Bytes(<<"Bearer ">> \o Secret), Bytes(<<"Bearer ", "wrong">>),
      Bytes(<<"bearer ">> \o Secret), Bytes(Secret),
      Bytes(<<"Bearer ">> \o Secret \o <<" ">>), Bytes(<<>>), BadBytes }
Header(name, value) == [name |-> name, value |-> value]
HeaderEntries ==
    { Header("authorization", v) : v \in HeaderValues }
    \cup { Header("host", Bytes(<<"fmg-mcp">>)) }
RECURSIVE SeqsUpTo(_, _)
SeqsUpTo(S, n) ==
    IF n = 0 THEN { <<>> }
    ELSE SeqsUpTo(S, n - 1)
         \cup { Append(q, e) : q \in { r \in SeqsUpTo(S, n - 1) : Len(r) = n - 1 }, e \in S }
HeaderLists == SeqsUpTo(HeaderEntries, MaxHeaders)

ScopeTypes == {"http", "websocket", "lifespan"}
\* scope.get("path", ""): <<>> is the empty path
Paths == { <<"/health">>, <<"/mcp">>, <<"/health", "/">>, <<>> }
Scope(type, path, headers) == [type |-> type, path |-> path, headers |-> headers]

\* settings.MCP_AUTH_TOKEN: None, the empty string, or a token
Setting(is_none, text) == [is_none |-> is_none, text |-> text]
TokenSettings == { Setting(TRUE, <<>>), Setting(FALSE, <<>>), Setting(FALSE, Secret) }

\* dict(headers).get(name, b""): of two entries of one name the last one wins
HeaderGet(headers, name) ==
    LET at == { k \in DOMAIN headers : headers[k].name = name }
    IN IF at = {} THEN Bytes(<<>>)
       ELSE headers[CHOOSE k \in at : \A j \in at : j <= k].value

\* A comparison that accepts the bare token too.
Authorized_BareToken(auth_header, token) ==
    auth_header = <<"Bearer ">> \o token \/ auth_header = token

\* not (auth_header != f"Bearer {token}")
Authorized(auth_header, token) == auth_header = <<"Bearer ">> \o token

\* What the middleware does with a request: "app" hands it to the wrapped
\* application, "401" answers it with the JSON 401 response, "raise" leaves
\* __call__ with the UnicodeDecodeError of bytes.decode().
AuthMiddleware(scope, token) ==
    IF scope.type \notin {"http", "websocket"} THEN "app"
    ELSE IF scope.path = <<"/health">> THEN "app"
    ELSE IF token.is_none \/ token.text = <<>> THEN "app"
    ELSE LET raw == HeaderGet(scope.headers, "authorization")
         IN IF ~raw.utf8 THEN "raise"
            ELSE IF Authorized(raw.text, token.text) THEN "app"
            ELSE "401"

---------------------------------------------------------------------------
(* parse_fmg_error, utils/errors.py. *)

\* Codes -MaxErrCode .. 1 are tried.
MaxErrCode == 22
ErrCodes == (0 - MaxErrCode)..1

\* A table without the entry of -11.
ERROR_CODE_MAP_NoTimeout(code) ==
    CASE code \in {-1, -10} -> "APIError"
      [] code \in {-2, -20, -21} -> "AuthenticationError"
      [] code = -3 -> "PermissionError"
      [] code = -4 -> "ResourceNotFoundError"
      [] code = -5 -> "ValidationError"
      [] code \in {-6, -7} -> "ObjectError"
      [] code \in {-8, -9} -> "ADOMLockError"
      [] OTHER -> "APIError"

\* ERROR_CODE_MAP.get(code, APIError)
ERROR_CODE_MAP(code) ==
    CASE code \in {-1, -10} -> "APIError"
      [] code \in {-2, -20, -21} -> "AuthenticationError"
      [] code = -3 -> "PermissionError"
      [] code = -4 -> "ResourceNotFoundError"
      [] code = -5 -> "ValidationError"
      [] code \in {-6, -7} -> "ObjectError"
      [] code \in {-8, -9} -> "ADOMLockError"
      [] code = -11 -> "TimeoutError"
      [] OTHER -> "APIError"

\* ERROR_CODE_MESSAGES.get(code, message)
ERROR_CODE_MESSAGES(code, message) ==
    CASE code = -1 -> <<"Internal server error occurred">>
      [] code = -2 -> <<"Session is invalid or expired">>
      [] code = -3 -> <<"Permission denied for this operation">>
      [] code = -4 -> <<"Requested resource not found">>
      [] code = -5 -> <<"Invalid parameter value">>
      [] code = -6 -> <<"Object already exists">>
      [] code = -7 -> <<"Cannot delete object - it is still in use">>
      [] code = -8 -> <<"ADOM is locked by another user">>
      [] code = -9 -> <<"ADOM has uncommitted changes">>
      [] code = -10 -> <<"API version mismatch">>
      [] code = -11 -> <<"Operation timed out">>
      [] code = -20 -> <<"Invalid username or password">>
      [] code = -21 -> <<"Authentication token has expired">>
      [] OTHER -> message

\* The url argument: None, or a string
UrlArg(is_none, text) == [is_none |-> is_none, text |-> text]
UrlArgs == { UrlArg(TRUE, <<>>), UrlArg(FALSE, <<>>), UrlArg(FALSE, DeviceUrl) }
ErrMessages == { <<>>, <<"no such object">>, <<"Requested resource not found">> }

\* error_class(error_msg, code=code)
FmgError(cls, msg, code) == [cls |-> cls, msg |-> msg, code |-> code]
NoFmgError == FmgError("none", <<>>, 0)

utils_parse_fmg_error(code, message, url) ==
    LET base_msg == ERROR_CODE_MESSAGES(code, message)
        error_msg == IF message # <<>> /\ message # base_msg
                     THEN base_msg \o <<": ">> \o message
                     ELSE base_msg
    IN FmgError(ERROR_CODE_MAP(code),
                IF ~url.is_none /\ url.text # <<>>
                THEN error_msg \o <<" (endpoint: ">> \o url.text \o <<")">>
                ELSE error_msg,
                code)

\* The subclasses of FortiManagerMCPError; an exception of the backend
\* library is none of them.
McpErrorClasses ==
    {"AuthenticationError", "ConnectionError", "APIError", "ValidationError",
     "ResourceNotFoundError", "PermissionError", "TimeoutError", "ADOMLockError",
     "TaskError", "PolicyError", "PackageError", "ObjectError", "TemplateError",
     "ScriptError", "DeviceError", "InstallError"}
\* isinstance(error, FortiManagerMCPError): the base class or one of the
\* sixteen classes derived from it (each derives from the base directly).
IsMcpError(e) == e.cls = "FortiManagerMCPError" \/ e.cls \in McpErrorClasses
\* isinstance(error, FortiManagerMCPError) and error.code in codes
HasCodeIn(e, codes) == IsMcpError(e) /\ e.has_code /\ e.code \in codes

\* str(error): the message, its pieces put together into one str.
RECURSIVE JoinText(_)
JoinText(msg) == IF msg = <<>> THEN "" ELSE Head(msg) \o JoinText(Tail(msg))

\* str.lower(), character by character.
RECURSIVE LowerText(_)
LowerText(t) ==
    IF Len(t) = 0 THEN "" ELSE LowerChar(SubSeq(t, 1, 1)) \o LowerText(SubSeq(t, 2, Len(t)))

\* part in text
InText(part, text) ==
    \E k \in 1..(Len(text) - Len(part) + 1) : SubSeq(text, k, k + Len(part) - 1) = part

\* lines 302-304 and 323-325: str(error).lower()
LoweredMessage(e) == LowerText(JoinText(e.msg))

is_object_in_use_error(e) ==
    \/ HasCodeIn(e, {-7})
    \/ /\ e.cls = "ObjectError"
       /\ InText("in use", LoweredMessage(e)) \/ InText("referenced", LoweredMessage(e))
is_duplicate_error(e) ==
    \/ HasCodeIn(e, {-6})
    \/ /\ e.cls = "ObjectError"
       /\ InText("already exists", LoweredMessage(e)) \/ InText("duplicate", LoweredMessage(e))
is_permission_error(e) == HasCodeIn(e, {-3}) \/ e.cls = "PermissionError"
is_auth_error(e) == HasCodeIn(e, {-2, -20, -21}) \/ e.cls = "AuthenticationError"

---------------------------------------------------------------------------
(* The values of the variables a specification does not use. *)

NoMethod == Method("none", "none", <<>>, "none")
IdleOut == [op |-> "none", m |-> NoMethod, reply |-> NoReply, res |-> NoOutcome]
IdlePre == [st |-> NewClient, nsent |-> 0]
IdleTool == [name |-> "none", module |-> "none", client |-> "none", result |-> NoResult,
             sent |-> 0, raised |-> FALSE]
IdleHttp == [scope |-> Scope("none", <<>>, <<>>), token |-> Setting(TRUE, <<>>),
             outcome |-> "idle"]
IdlePerr == [code |-> 0, message |-> <<>>, url |-> UrlArg(TRUE, <<>>),
             result |-> NoFmgError, done |-> FALSE]
\* The locals of one invocation of wait_for_task and its history: requests is
\* the number of requests it has sent, wake the time its timer fires, alone
\* the time the timer of the same invocation run alone fires (the same
\* responses, the same fetch latencies, the same lateness of its timers),
\* as_alone whether it has so far made the same fetches and taken the same
\* exit as that one.
Invocation(tid, t, p) ==
    [task_id |-> tid, timeout |-> t, poll_interval |-> p, start_time |-> 0,
     pc |-> "start", ret |-> "none", result |-> NoResult, task |-> Unbound,
     got |-> Unbound, fetches |-> 0, requests |-> 0, wake |-> 0,
     alone |-> 0, as_alone |-> TRUE]
IdlePair == [clock |-> 0, inv |-> <<>>]
\* The lifespan of a server: which one runs (mode), the settings object it
\* reads, its phase, whether bringing the client up raised, how the body of
\* the context was left, and the calls of disconnect it made.
Life(mode, host, settings) ==
    [mode |-> mode, host |-> host, settings |-> settings, phase |-> "startup",
     bringup_failed |-> FALSE, error |-> "none", seen |-> "nothing",
     exit |-> "none", disconnects |-> 0]
IdleLife == [Life("none", FALSE, "none") EXCEPT !.phase = "idle"]
\* One call of execute_fortimanager_tool: the arguments, the tool modules that
\* have been imported in the process, where the call stands (not made yet,
\* waiting in `await tool_func(**params)`, or over), what was called and what
\* was returned, and the outcome of a second call made while this one waits.
Dispatch(name, params, loaded) ==
    [tool_name |-> name, parameters |-> params, loaded |-> loaded, pc |-> "ready",
     called |-> "nothing", module |-> "none", outcome |-> "none", key |-> "none",
     second |-> [made |-> FALSE]]
IdleDisp == [Dispatch([is_str |-> FALSE, s |-> <<"idle">>], "none", {}) EXCEPT !.pc = "done"]

IdleShadow == [pc |-> "start", ret |-> "none", status |-> "none",
               completed |-> FALSE, fetches |-> 0]

---------------------------------------------------------------------------
(* History of the invocation: the calls it makes, in order. *)

FetchEvent(tid) == [ev |-> "fetch", arg |-> tid]
SleepEvent(d) == [ev |-> "sleep", arg |-> d]

\* The calls the step to next makes: get_task on entering "fetching",
\* asyncio.sleep on entering "sleeping".
Calls(next) ==
    CASE next.pc = "fetching" -> <<FetchEvent(task_id)>>
      [] next.pc = "sleeping" -> <<SleepEvent(SleepArg(poll_interval))>>
      [] OTHER -> <<>>

Record(next) ==
    /\ pc' = next.pc
    /\ ret' = next.ret
    /\ result' = next.result
    /\ trace' = trace \o Calls(next)
    /\ fetches' = fetches + (IF next.pc = "fetching" THEN 1 ELSE 0)
    /\ sleeps' = sleeps + (IF next.pc = "sleeping" THEN 1 ELSE 0)

\* The backend's table of state codes, as the spec gives it.
CodeLabel(n) ==
    CASE n = 0 -> PENDING [] n = 1 -> RUNNING [] n = 4 -> DONE
      [] n = 5 -> ERROR [] n = 3 -> CANCELLED

\* The response with an integer state code replaced by its label.
Relabel(t) ==
    IF t.kind = "dict" /\ t.has_state /\ t.state.type = "int" /\ t.state.i \in {0, 1, 3, 4, 5}
    THEN [t EXCEPT !.state = StrVal(CodeLabel(t.state.i))]
    ELSE t

\* The terminal states a fetch can report, value by value.
TerminalDone == { StrVal(DONE), StrVal(<<"D","O","N","E">>), IntVal(4) }
TerminalError == { StrVal(ERROR), StrVal(<<"E","r","r","o","r">>), IntVal(5) }
TerminalCancelled == { StrVal(CANCELLED), StrVal(<<"C","a","n","c","e","l","l","e","d">>), IntVal(3) }
ReportsState(t, S) == t.kind = "dict" /\ t.has_state /\ t.state \in S
ReportsTerminal(t) == ReportsState(t, TerminalDone \cup TerminalError \cup TerminalCancelled)

Shadow(next, n) ==
    [pc |-> next.pc, ret |-> next.ret,
     status |-> IF next.ret \in {"none", "raised"} THEN "none" ELSE next.result.status,
     completed |-> IF next.ret \in {"none", "raised"} THEN FALSE ELSE next.result.completed,
     fetches |-> n + (IF next.pc = "fetching" THEN 1 ELSE 0)]

---------------------------------------------------------------------------
(* The invocation. *)

Init ==
    /\ task_id \in TaskIds
    /\ \E b \in Budgets : timeout = b[1] /\ poll_interval = b[2]
    /\ client \in {"none", "connected"}
    /\ clock \in StartClocks
    /\ start_time = 0
    /\ pc = "start"
    /\ ret = "none"
    /\ task = Unbound
    /\ result = NoResult
    /\ exc = NoExc
    /\ fetches = 0
    /\ sleeps = 0
    /\ trace = <<>>
    /\ nonterm = 0
    /\ allRunning = TRUE
    /\ maxLatency = 0
    /\ exactSleeps = TRUE
    /\ shadow = IdleShadow
    /\ fetchesDone = 0
    /\ sent = <<>>
    \* the client that get_fmg_client() returns has been connected
    /\ connected = (client = "connected")
    /\ fmg = (IF client = "connected" THEN LiveClient.fmg ELSE NewClient.fmg)
    /\ created = fmg
    /\ logins = fmg
    /\ logouts = 0
    /\ ops = 0
    /\ creds = "token"
    /\ out = IdleOut
    /\ pre = IdlePre
    /\ toolres = IdleTool
    /\ http = IdleHttp
    /\ perr = IdlePerr
    /\ pair = IdlePair
    /\ life = IdleLife
    /\ disp = IdleDisp

\* Lines 412-425: entry, _get_client, start_time, the first pass of the loop.
Start ==
    /\ pc = "start"
    /\ IF GetClientFails(client)
       THEN /\ Record(OnRaise(RuntimeError))
            /\ shadow' = Shadow(OnRaise(RuntimeError), shadow.fetches)
            /\ exc' = RuntimeError
            /\ UNCHANGED start_time
            /\ UNCHANGED <<clock, exactSleeps>>
       ELSE /\ start_time' = clock
            /\ \E lag \in ReadLags :
                 /\ clock' = clock + lag
                 /\ exactSleeps' = (exactSleeps /\ lag = 0)
            /\ Record(LoopTop(clock', start_time', timeout, task_id))
            /\ shadow' = Shadow(LoopTop(clock', start_time', timeout, task_id), shadow.fetches)
            /\ UNCHANGED exc
    /\ UNCHANGED <<task_id, timeout, poll_interval, client, task,
                   nonterm, allRunning, maxLatency>>
    /\ UNCHANGED <<fetchesDone, sent, clientVars, sideVars>>

\* client.get_task returns resp after lat; lines 425-443.
FetchReturn ==
    /\ pc = "fetching"
    /\ \E lat \in Latencies, resp \in Responses :
        /\ clock' = clock + lat
        /\ task' = resp
        /\ Record(OnFetch(resp))
        /\ exc' = IF resp.kind # "dict" THEN AttributeError ELSE exc
        /\ shadow' = IF shadow.pc = "fetching"
                     THEN Shadow(OnFetch(Relabel(resp)), shadow.fetches)
                     ELSE shadow
        /\ nonterm' = nonterm + (IF resp.kind = "dict" /\ ~ReportsTerminal(resp) THEN 1 ELSE 0)
        /\ allRunning' = (allRunning /\ ReportsState(resp, {StrVal(RUNNING)}))
        /\ maxLatency' = IF lat > maxLatency THEN lat ELSE maxLatency
    /\ fetchesDone' = fetchesDone + 1
    /\ sent' = Append(sent, Request(get_task(task_id)))
    /\ UNCHANGED <<task_id, timeout, poll_interval, client, start_time, exactSleeps>>
    /\ UNCHANGED <<clientVars, sideVars>>

\* client.get_task raises e after lat; lines 445-447.
FetchRaise ==
    /\ pc = "fetching"
    /\ \E lat \in Latencies, e \in FetchExceptions(task_id, timeout) :
        /\ clock' = clock + lat
        /\ exc' = e
        /\ Record(OnRaise(e))
        /\ shadow' = IF shadow.pc = "fetching"
                     THEN Shadow(OnRaise(e), shadow.fetches)
                     ELSE shadow
        /\ maxLatency' = IF lat > maxLatency THEN lat ELSE maxLatency
        \* _ensure_connected raises before anything is sent
        /\ sent' = IF e.cls = "ConnectionError" THEN sent
                   ELSE Append(sent, Request(get_task(task_id)))
    /\ fetchesDone' = fetchesDone + 1
    /\ UNCHANGED <<clientVars, sideVars>>
    /\ allRunning' = FALSE
    /\ UNCHANGED <<task_id, timeout, poll_interval, client, start_time, task,
                   nonterm, exactSleeps>>

\* asyncio.sleep(poll_interval) ends, no sooner than asked; lines 443, 417-425.
SleepDone ==
    /\ pc = "sleeping"
    /\ fetches < FetchCap
    /\ \E over \in Oversleeps :
        /\ clock' = clock + trace[Len(trace)].arg + over
        /\ exactSleeps' = (exactSleeps /\ over = 0)
        /\ Record(LoopTop(clock', start_time, timeout, task_id))
        /\ shadow' = IF shadow.pc = "sleeping"
                     THEN Shadow(LoopTop(clock', start_time, timeout, task_id), shadow.fetches)
                     ELSE shadow
    /\ UNCHANGED <<task_id, timeout, poll_interval, client, start_time, task, exc,
                   nonterm, allRunning, maxLatency>>
    /\ UNCHANGED <<fetchesDone, sent, clientVars, sideVars>>

Next == Start \/ FetchReturn \/ FetchRaise \/ SleepDone

Spec == Init /\ [][Next]_vars

\* Every await of the invocation completes: the fetch returns or raises, the
\* sleep ends.
LiveSpec == Spec /\ WF_vars(Start) /\ WF_vars(FetchReturn \/ FetchRaise) /\ WF_vars(SleepDone)

---------------------------------------------------------------------------
(* The invocation, abandoned or not by the context that awaits it. *)

\* The task that runs wait_for_task is cancelled while it is suspended in
\* asyncio.sleep (line 443): CancelledError is raised there, inside the try.
Cancel ==
    /\ pc = "sleeping"
    /\ exc' = CancelledError
    /\ Record(OnRaise(CancelledError))
    /\ shadow' = IF shadow.pc = "sleeping"
                 THEN Shadow(OnRaise(CancelledError), shadow.fetches)
                 ELSE shadow
    /\ UNCHANGED <<task_id, timeout, poll_interval, client, clock, start_time, task,
                   nonterm, allRunning, maxLatency, exactSleeps>>
    /\ UNCHANGED <<fetchesDone, sent, clientVars, sideVars>>

CancelNext == Start \/ FetchReturn \/ FetchRaise \/ SleepDone \/ Cancel

CancelSpec == Init /\ [][CancelNext]_vars

---------------------------------------------------------------------------
(* Calls on the client and on the tools. *)

\* No invocation of wait_for_task is under way.
PollIdle ==
    /\ task_id = 1 /\ timeout = 0 /\ poll_interval = 1
    /\ clock = 0 /\ start_time = 0
    /\ pc = "idle" /\ ret = "none"
    /\ task = Unbound /\ result = NoResult /\ exc = NoExc
    /\ fetches = 0 /\ sleeps = 0 /\ trace = <<>> /\ nonterm = 0
    /\ allRunning = TRUE /\ maxLatency = 0 /\ exactSleeps = TRUE
    /\ shadow = IdleShadow /\ fetchesDone = 0

St == ClientState(connected, fmg, created, logins, logouts)
SetClient(st) ==
    /\ connected' = st.connected
    /\ fmg' = st.fmg
    /\ created' = st.created
    /\ logins' = st.logins
    /\ logouts' = st.logouts
Snapshot == [st |-> St, nsent |-> Len(sent)]

\* FortiManagerClient.__init__ has run; the global client is set or not.
ClientInit ==
    /\ PollIdle
    /\ client \in {"none", "connected"}
    /\ sent = <<>>
    /\ connected = NewClient.connected
    /\ fmg = NewClient.fmg
    /\ created = 0
    /\ logins = 0
    /\ logouts = 0
    /\ ops = 0
    /\ creds \in Credentials
    /\ out = IdleOut
    /\ pre = IdlePre
    /\ toolres = IdleTool
    /\ http = IdleHttp
    /\ perr = IdlePerr
    /\ pair = IdlePair
    /\ life = IdleLife
    /\ disp = IdleDisp

\* await client.connect()
Connect ==
    /\ ops < MaxOps
    /\ \E lr \in LoginReplies :
        LET r == connect(St, creds, lr)
        IN /\ SetClient(r.st)
           /\ out' = [op |-> "connect", m |-> NoMethod,
                      reply |-> IF r.st.logins > logins THEN lr ELSE NoReply,
                      res |-> r.res]
    /\ pre' = Snapshot
    /\ ops' = ops + 1
    /\ toolres' = IdleTool
    /\ UNCHANGED <<pollVars, client, sent, creds, sideVars>>

\* await client.disconnect()
Disconnect ==
    /\ ops < MaxOps
    /\ \E lo \in LogoutReplies :
        LET r == disconnect(St, lo)
        IN /\ SetClient(r.st)
           /\ out' = [op |-> "disconnect", m |-> NoMethod,
                      reply |-> IF r.st.logouts > logouts THEN lo ELSE NoReply,
                      res |-> r.res]
    /\ pre' = Snapshot
    /\ ops' = ops + 1
    /\ toolres' = IdleTool
    /\ UNCHANGED <<pollVars, client, sent, creds, sideVars>>

\* await client.<method>(...)
Call ==
    /\ ops < MaxOps
    /\ \E m \in Methods, reply \in Replies :
        LET r == call(St, m, reply)
        IN /\ sent' = sent \o r.sent
           /\ out' = [op |-> "call", m |-> m,
                      reply |-> IF r.sent = <<>> THEN NoReply ELSE reply,
                      res |-> r.res]
    /\ pre' = Snapshot
    /\ ops' = ops + 1
    /\ toolres' = IdleTool
    /\ UNCHANGED <<pollVars, client, connected, fmg, created, logins, logouts,
                   creds, sideVars>>

ClientNext == Connect \/ Disconnect \/ Call

ClientSpec == ClientInit /\ [][ClientNext]_vars

---------------------------------------------------------------------------
(* One call of a tool function. *)

\* The client as connect and disconnect leave it: never connected, connected,
\* disconnected again.
ToolClientStates ==
    { NewClient, LiveClient,
      [LiveClient EXCEPT !.connected = FALSE, !.fmg = 0, !.logouts = 1] }

\* Before the call: no client is initialized, or one is, in one of its states.
ToolInit ==
    /\ PollIdle
    /\ client \in {"none", "connected"}
    /\ sent = <<>>
    /\ \E st \in ToolClientStates :
          /\ client = "none" => st = NewClient
          /\ connected = st.connected
          /\ fmg = st.fmg
          /\ created = st.created
          /\ logins = st.logins
          /\ logouts = st.logouts
    /\ ops = 0
    /\ creds = "token"
    /\ out = IdleOut
    /\ pre = IdlePre
    /\ toolres = IdleTool
    /\ http = IdleHttp
    /\ perr = IdlePerr
    /\ pair = IdlePair
    /\ life = IdleLife
    /\ disp = IdleDisp

\* A tool function is called; it looks the client up, calls its methods and
\* makes its answer of what they return, or is left by what they raise.
ToolCall ==
    /\ toolres.module = "none"
    /\ \E t \in Tools : \E replies \in [1..Len(t.calls) -> ToolReplies] :
        \E r \in {tool(t, client, St, replies)} :
           /\ sent' = sent \o r.sent
           /\ toolres' = [name |-> t.name, module |-> t.module, client |-> client,
                          result |-> r.result, sent |-> Len(r.sent), raised |-> r.raised]
    /\ pre' = Snapshot
    /\ UNCHANGED <<pollVars, client, connected, fmg, created, logins, logouts, ops,
                   creds, out, sideVars>>

ToolNext == ToolCall

ToolSpec == ToolInit /\ [][ToolNext]_vars

---------------------------------------------------------------------------
(* The invocation on a client that is disconnected under it. *)

NotConnectedError == Exc("ConnectionError", TRUE, "fetch", NotConnectedMessage)

\* client.get_task returns: _ensure_connected has let the call through.
SharedFetchReturn ==
    /\ ~EnsureConnectedFails(St)
    /\ FetchReturn

\* client.get_task raises: ConnectionError exactly when _ensure_connected
\* fails, an error of the request otherwise.
SharedFetchRaise ==
    /\ FetchRaise
    /\ EnsureConnectedFails(St) <=> (exc' = NotConnectedError)

\* The shared client is disconnected (the shutdown part of lifespan, lines
\* 66-67, or any other caller) before the invocation runs or while it is
\* suspended in asyncio.sleep; _fmg_client stays set.
DisconnectUnderPoller ==
    /\ pc \in {"start", "sleeping"}
    /\ client = "connected"
    /\ Disconnect

SharedNext ==
    Start \/ SharedFetchReturn \/ SharedFetchRaise \/ SleepDone \/ DisconnectUnderPoller

SharedSpec == Init /\ [][SharedNext]_vars

---------------------------------------------------------------------------
(* Two invocations of wait_for_task on the one event loop and the one client. *)

MaxPairTimeout == 2
PairIds == 1..2
PairBudgets == (0..MaxPairTimeout) \X PollIntervals
\* What get_task delivers to either invocation: a state that is not final, a
\* final one as a label and as a code, or an APIError.
PairResponses == { TaskDict(StrVal(RUNNING), 0), TaskDict(StrVal(DONE), 0), TaskDict(IntVal(5), 0) }
PairReplies == [raised : {FALSE}, resp : PairResponses]
                  \cup { [raised |-> TRUE, resp |-> Unbound] }

Max(a, b) == IF a > b THEN a ELSE b

\* line 425: client.get_task(task_id), the argument of this invocation
FetchArg(p, i) == p.inv[i].task_id

\* The outcome of the fetch in the terms of the loop.
AfterFetch(v, reply) ==
    IF reply.raised THEN OnRaise(Exc("APIError", TRUE, "fetch", ApiErrorMessage(v.task_id)))
    ELSE OnFetch(reply.resp)

\* One run of invocation v from the top of the loop at time now to its next
\* suspension or its return (lines 417-443). get_task is a call of the
\* synchronous backend library inside a coroutine (client.py line 211): it
\* does not suspend, the event loop runs nothing else for its lat seconds.
Pass(v, now, anow, lat, reply, over) ==
    LET top == LoopTop(now, v.start_time, v.timeout, v.task_id)
        atop == LoopTop(anow, v.start_time, v.timeout, v.task_id)
        next == IF top.pc = "fetching" THEN AfterFetch(v, reply) ELSE top
        fetched == top.pc = "fetching"
    IN [v EXCEPT !.pc = next.pc,
                 !.ret = next.ret,
                 !.result = next.result,
                 !.task = IF fetched /\ ~reply.raised THEN reply.resp ELSE v.task,
                 !.got = IF fetched /\ ~reply.raised THEN reply.resp ELSE v.got,
                 !.fetches = v.fetches + (IF fetched THEN 1 ELSE 0),
                 !.requests = v.requests + (IF fetched THEN 1 ELSE 0),
                 !.wake = IF next.pc = "sleeping"
                          THEN now + lat + SleepArg(v.poll_interval) + over ELSE 0,
                 !.alone = IF next.pc = "sleeping"
                           THEN anow + lat + SleepArg(v.poll_interval) + over ELSE 0,
                 !.as_alone = v.as_alone /\ atop.pc = top.pc]

PairInit ==
    /\ PollIdle
    /\ client = "connected"
    /\ sent = <<>>
    /\ connected = LiveClient.connected
    /\ fmg = LiveClient.fmg
    /\ created = LiveClient.created
    /\ logins = LiveClient.logins
    /\ logouts = 0
    /\ ops = 0
    /\ creds = "token"
    /\ out = IdleOut
    /\ pre = IdlePre
    /\ toolres = IdleTool
    /\ http = IdleHttp
    /\ perr = IdlePerr
    /\ life = IdleLife
    /\ disp = IdleDisp
    /\ \E b1 \in PairBudgets, b2 \in PairBudgets :
          pair = [clock |-> 0,
                  inv |-> << Invocation(1, b1[1], b1[2]), Invocation(2, b2[1], b2[2]) >>]

\* The run of invocation i that begins at time now, which is anow on the
\* clock of the invocation run alone.
Run(i, v, now, anow) ==
    \E lat \in Latencies, reply \in PairReplies, over \in Oversleeps :
        LET w == Pass(v, now, anow, lat, reply, over)
            fetched == w.fetches > v.fetches
        IN /\ pair' = [clock |-> IF fetched THEN now + lat ELSE now,
                       inv |-> [pair.inv EXCEPT ![i] = w]]
           /\ sent' = IF fetched
                      THEN Append(sent, Request(get_task(FetchArg(pair, i))))
                      ELSE sent

\* Lines 412-425 of invocation i: it is called at the current time and
\* reads the clock twice, for start_time and at the top of the loop.
PairStart(i) ==
    /\ pair.inv[i].pc = "start"
    /\ \E lag \in ReadLags :
         Run(i, [pair.inv[i] EXCEPT !.start_time = pair.clock],
             pair.clock + lag, pair.clock + lag)
    /\ UNCHANGED <<pollVars, client, clientVars, http, perr, life, disp>>

\* asyncio.sleep of invocation i ends (line 443) when its timer has fired and
\* the event loop is free; the timers that have fired run in the order of
\* their times.
PairWake(i) ==
    /\ pair.inv[i].pc = "sleeping"
    /\ \A j \in PairIds :
          pair.inv[j].pc = "sleeping" => pair.inv[i].wake <= pair.inv[j].wake
    /\ Run(i, pair.inv[i], Max(pair.clock, pair.inv[i].wake), pair.inv[i].alone)
    /\ UNCHANGED <<pollVars, client, clientVars, http, perr, life, disp>>

PairNext == \E i \in PairIds : PairStart(i) \/ PairWake(i)

PairSpec == PairInit /\ [][PairNext]_vars

---------------------------------------------------------------------------
(* The lifespan of the server: lifespan (stdio) and run_http.app_lifespan. *)

Modes == {"stdio", "http"}
\* The module global settings: the Settings object of utils/config.py, whose
\* fields are FORTIMANAGER_HOST, FORTIMANAGER_API_TOKEN, ... and no others, or
\* an object put in its place that also has the attributes fortimanager_host,
\* fortimanager_api_token, ... that from_settings reads.
SettingsObjects == {"Settings", "lowercase"}

\* FortiManagerClient.from_settings: settings.fortimanager_host and the six
\* attributes after it; an attribute the object lacks raises AttributeError.
from_settings_Raises(settings) == settings = "Settings"

\* The client that from_settings returns: __init__ has run.
FreshClient == NewClient

\* What startup leaves: the global client, the client object, whether an
\* exception left the lifespan (the server does not start), whether bringing
\* the client up failed.
Started(global, st, error, failed) ==
    [global |-> global, st |-> st, error |-> error, failed |-> failed]

\* lifespan, lines 38-61: from_settings and connect are both inside the try.
lifespan(host, settings, c, lr) ==
    IF ~host THEN Started("none", St, "none", FALSE)
    ELSE IF from_settings_Raises(settings) THEN Started("none", St, "none", TRUE)
    ELSE LET r == connect(FreshClient, c, lr)
         IN IF r.res.kind = "raise" THEN Started("none", r.st, "none", TRUE)
            ELSE Started("connected", r.st, "none", FALSE)

\* app_lifespan, lines 477-497: from_settings is called before the try.
app_lifespan(host, settings, c, lr) ==
    IF ~host THEN Started("none", St, "none", FALSE)
    ELSE IF from_settings_Raises(settings) THEN Started("none", St, "AttributeError", TRUE)
    ELSE LET r == connect(FreshClient, c, lr)
         IN IF r.res.kind = "raise" THEN Started("none", r.st, "none", TRUE)
            ELSE Started("connected", r.st, "none", FALSE)

\* How the body of the context is left: the server stops and the generator
\* is resumed, or an exception (CancelledError, KeyboardInterrupt) is thrown
\* into it at the yield.
Exits == {"resumed", "thrown"}

\* lifespan, lines 63-68: the code after the yield runs when the generator is
\* resumed, not when an exception is thrown into it.
lifespan_cleans(exit) == exit = "resumed"

\* app_lifespan, lines 499-503: try ... finally.
app_lifespan_cleans(exit) == TRUE

LifeInit ==
    /\ PollIdle
    /\ client = "none"
    /\ sent = <<>>
    /\ connected = NewClient.connected
    /\ fmg = NewClient.fmg
    /\ created = 0
    /\ logins = 0
    /\ logouts = 0
    /\ ops = 0
    /\ creds \in Credentials
    /\ out = IdleOut
    /\ pre = IdlePre
    /\ toolres = IdleTool
    /\ http = IdleHttp
    /\ perr = IdlePerr
    /\ pair = IdlePair
    /\ disp = IdleDisp
    /\ \E mode \in Modes, host \in BOOLEAN, settings \in SettingsObjects :
          life = Life(mode, host, settings)

\* The part of the lifespan before the yield.
Startup ==
    /\ life.phase = "startup"
    /\ \E lr \in LoginReplies :
        LET r == IF life.mode = "stdio"
                 THEN lifespan(life.host, life.settings, creds, lr)
                 ELSE app_lifespan(life.host, life.settings, creds, lr)
        IN /\ client' = r.global
           /\ SetClient(r.st)
           /\ life' = [life EXCEPT !.phase = IF r.error = "none" THEN "serving" ELSE "failed",
                                   !.bringup_failed = r.failed,
                                   !.error = r.error]
    /\ UNCHANGED <<pollVars, sent, ops, creds, out, pre, toolres, http, perr, pair, disp>>

\* A tool runs while the server serves: get_fmg_client(), lines 33-35.
Serve ==
    /\ life.phase = "serving"
    /\ life.seen = "nothing"
    /\ life' = [life EXCEPT !.seen = IF client = "none" THEN "none"
                                     ELSE IF is_connected(St) THEN "connected"
                                     ELSE "disconnected"]
    /\ UNCHANGED <<pollVars, client, sent, clientVars, http, perr, pair, disp>>

\* The body of the context is left: the part of the lifespan after the yield.
\* With no host lifespan returns right after the yield (lines 50-51).
Shutdown ==
    /\ life.phase = "serving"
    /\ \E exit \in Exits, lo \in LogoutReplies :
        LET cleans == IF life.mode = "stdio"
                      THEN life.host /\ lifespan_cleans(exit)
                      ELSE app_lifespan_cleans(exit)
            calls == cleans /\ client # "none"
        IN /\ SetClient(IF calls THEN disconnect(St, lo).st ELSE St)
           /\ life' = [life EXCEPT !.phase = "stopped", !.exit = exit,
                                   !.disconnects = life.disconnects + (IF calls THEN 1 ELSE 0)]
    /\ UNCHANGED <<pollVars, client, sent, ops, creds, out, pre, toolres, http, perr, pair, disp>>

LifeNext == Startup \/ Serve \/ Shutdown

LifeSpec == LifeInit /\ [][LifeNext]_vars

---------------------------------------------------------------------------
(* execute_fortimanager_tool: a tool looked up by name and run. *)

\* lines 327-335, in the order of the loop
ToolModuleNames == << "system_tools", "dvm_tools", "policy_tools", "object_tools",
                      "script_tools", "template_tools", "sdwan_tools" >>
WithLogging == {"system_tools", "dvm_tools", "policy_tools", "object_tools"}
WithDefaultAdom == {"dvm_tools", "object_tools"}

\* A str, as the tokens of its text, or a value that is no str.
StrName(s) == [is_str |-> TRUE, s |-> s]
NoneName == [is_str |-> FALSE, s |-> <<>>]
ToolNames ==
    { StrName(<<"wait_for_task">>), StrName(<<"list_devices">>), StrName(<<"list_scripts">>) }
OtherNames ==
    { StrName(<<"_", "get_client">>), StrName(<<"_", "decode_status">>),
      StrName(<<"get_fmg_client">>), StrName(<<"get_default_adom">>), StrName(<<"Any">>),
      StrName(<<"logging">>), StrName(<<"logger">>), StrName(<<"mcp">>),
      StrName(<<"CONN_STATUS">>), StrName(<<"no_such_tool">>), StrName(<<>>), NoneName }
DispatchNames == ToolNames \cup OtherNames

\* What the module has under the name: a tool (an async def registered with
\* @mcp.tool()), a plain function, the class typing.Any, an object that is
\* not callable, or nothing.
ModuleAttr(module, s) ==
    CASE s = <<"wait_for_task">> /\ module = "system_tools" -> "tool"
      [] s = <<"list_devices">> /\ module = "system_tools" -> "tool"
      [] s = <<"list_scripts">> /\ module = "script_tools" -> "tool"
      [] s = <<"_", "get_client">> /\ module \in WithLogging -> "function"
      [] s = <<"_", "decode_status">> /\ module = "dvm_tools" -> "function"
      [] s = <<"get_fmg_client">> -> "function"
      [] s = <<"get_default_adom">> /\ module \in WithDefaultAdom -> "function"
      [] s = <<"Any">> -> "class"
      [] s = <<"mcp">> -> "object"
      [] s \in {<<"logging">>, <<"logger">>} /\ module \in WithLogging -> "object"
      [] s = <<"CONN_STATUS">> /\ module = "dvm_tools" -> "object"
      [] OTHER -> "absent"

\* callable(candidate)
Callable(kind) == kind \in {"tool", "function", "class"}

\* lines 319-323: tool_name.startswith("_")
StartsWithUnderscore(s) == Len(s) > 0 /\ s[1] = "_"

\* The tool modules imported in the process. Dynamic mode, the one mode that
\* registers execute_fortimanager_tool, imports none (lines 363-366); a
\* process that imports some itself (the tests import them one at a time) has
\* those; full mode imports the seven (lines 373-381).
AllToolModules == { ToolModuleNames[k] : k \in DOMAIN ToolModuleNames }
LoadedSets == { {}, {"system_tools"}, {"dvm_tools", "script_tools"}, AllToolModules }

\* lines 338-339: module = getattr(tools, module_name, None); if module and
\* hasattr(module, tool_name): a module that was not imported is no attribute
\* of the package.
ModuleHas(loaded, module, s) == module \in loaded /\ ModuleAttr(module, s) # "absent"

\* lines 326-342: the first module of the list that is imported and has a
\* callable attribute of that name, 0 when none has.
FirstModule(s, loaded) ==
    LET hits == { k \in DOMAIN ToolModuleNames :
                    /\ ModuleHas(loaded, ToolModuleNames[k], s)
                    /\ Callable(ModuleAttr(ToolModuleNames[k], s)) }
    IN IF hits = {} THEN 0 ELSE CHOOSE k \in hits : \A j \in hits : k <= j

\* parameters: None, {}, [], a dict of the arguments of the tool, a dict with
\* a key that no callee takes, a list that is not empty.
ParameterValues == {"none", "empty dict", "empty list", "fits", "unexpected", "list"}

\* line 350: params = parameters or {}: None, {} and [] all give {}.
OrEmptyDict(params) == IF params \in {"none", "empty dict", "empty list"} THEN "empty dict" ELSE params

\* What a call of execute_fortimanager_tool comes to: what was called, in
\* which module, how the call ended, the keys of what it returned, and the
\* requests the tool handed to the backend.
NotFound ==
    [called |-> "nothing", module |-> "none", outcome |-> "returned", key |-> "not found",
     sent |-> <<>>]
Failed(called, module) ==
    [called |-> called, module |-> module, outcome |-> "returned", key |-> "error, tool",
     sent |-> <<>>]
Succeeded(module, reqs) ==
    [called |-> "tool", module |-> module, outcome |-> "returned", key |-> "success",
     sent |-> reqs]
Propagated(module, reqs) ==
    [called |-> "tool", module |-> module, outcome |-> "raised", key |-> "none",
     sent |-> reqs]
\* The tool has been called and the dispatcher waits for it.
Awaiting(module) ==
    [called |-> "tool", module |-> module, outcome |-> "none", key |-> "none",
     sent |-> <<>>]

\* wait_for_task has a parameter without a default (task_id); list_devices,
\* list_scripts and the plain functions have none.
RequiresArgument(s) == s = <<"wait_for_task">>

\* The call binds: params gives every required argument and no argument the
\* callee does not take ("fits" is a dict of arguments of the tool; the plain
\* functions take no argument at all).
Binds(kind, s, params) ==
    CASE params = "empty dict" -> ~RequiresArgument(s)
      [] params = "fits" -> kind = "tool"
      [] OTHER -> FALSE

\* The tool runs to its end without giving the loop back: list_devices and
\* list_scripts catch every Exception and wait for nothing but the client,
\* whose calls block; wait_for_task does not.
ReturnsAtOnce(s) == s # <<"wait_for_task">>

\* lines 352-355: the tool has run to its end with r.
Wrapped(module, r) ==
    IF r.raised THEN Propagated(module, r.sent) ELSE Succeeded(module, r.sent)

\* lines 350-355: params = parameters or {}, tool_func(**params) and the await
\* of what it returns: list_devices and list_scripts run to their end, on
\* the client c in state st with the backend answering reply, and what they
\* return is wrapped, whatever it is; an exception that leaves them and is no
\* Exception leaves the dispatcher too.  wait_for_task is entered.
Invoke(kind, s, module, params, c, st, reply) ==
    IF params = "list" THEN Failed("nothing", module)               \* ** needs a mapping
    ELSE IF kind = "class" THEN Failed("class", module)             \* Any cannot be instantiated
    ELSE IF ~Binds(kind, s, OrEmptyDict(params)) THEN Failed("nothing", module)  \* TypeError of the call
    ELSE IF kind = "function" THEN Failed("function", module)       \* the value is not awaitable
    ELSE IF ReturnsAtOnce(s) THEN Wrapped(module, tool(ToolNamed(s[1]), c, st, <<reply>>))
    ELSE Awaiting(module)

\* execute_fortimanager_tool, lines 301-359; for wait_for_task up to the point
\* where the tool is entered
execute_fortimanager_tool(name, params, loaded, c, st, reply) ==
    IF ~name.is_str THEN Failed("nothing", "none")                  \* AttributeError, caught
    ELSE IF StartsWithUnderscore(name.s) THEN NotFound
    ELSE IF FirstModule(name.s, loaded) = 0 THEN NotFound
    ELSE LET module == ToolModuleNames[FirstModule(name.s, loaded)]
         IN Invoke(ModuleAttr(module, name.s), name.s, module, params, c, st, reply)

\* The arguments of wait_for_task in a dict that fits it: a timeout that one
\* sleep uses up and one that leaves room for two.
DispatchBudgets == { <<1, 1>>, <<2, 1>> }
\* The second calls made while the first waits.
SecondCalls ==
    { <<StrName(<<"list_devices">>), "none">>, <<StrName(<<"get_fmg_client">>), "empty list">>,
      <<StrName(<<"Any">>), "fits">>, <<StrName(<<"_", "get_client">>), "none">>,
      <<StrName(<<"wait_for_task">>), "empty dict">> }

\* The state before the call: a client or none, the arguments of
\* wait_for_task should it be the tool, and nothing running.
DispatchInit ==
    /\ task_id \in TaskIds
    /\ \E b \in DispatchBudgets : timeout = b[1] /\ poll_interval = b[2]
    /\ client \in {"none", "connected"}
    /\ clock = 0
    /\ start_time = 0
    /\ pc = "idle" /\ ret = "none"
    /\ task = Unbound /\ result = NoResult /\ exc = NoExc
    /\ fetches = 0 /\ sleeps = 0 /\ trace = <<>> /\ nonterm = 0
    /\ allRunning = TRUE /\ maxLatency = 0 /\ exactSleeps = TRUE
    /\ shadow = IdleShadow /\ fetchesDone = 0
    /\ sent = <<>>
    /\ connected = (client = "connected")
    /\ fmg = (IF client = "connected" THEN LiveClient.fmg ELSE NewClient.fmg)
    /\ created = fmg /\ logins = fmg /\ logouts = 0
    /\ ops = 0 /\ creds = "token"
    /\ out = IdleOut /\ pre = IdlePre /\ toolres = IdleTool
    /\ http = IdleHttp
    /\ perr = IdlePerr
    /\ pair = IdlePair
    /\ life = IdleLife
    /\ \E name \in DispatchNames, params \in ParameterValues, loaded \in LoadedSets :
          disp = Dispatch(name, params, loaded)

\* The call: the lookup, the binding and the call of what was found. What
\* returns at once gives the outcome here, with the requests it sent;
\* wait_for_task is entered (its body is the invocation: Start and the steps
\* after it) and the dispatcher waits in `await tool_func(**params)`.
DispatchCall ==
    /\ disp.pc = "ready"
    /\ \E reply \in ToolReplies :
         \E r \in {execute_fortimanager_tool(disp.tool_name, disp.parameters, disp.loaded,
                                             client, St, reply)} :
            /\ disp' = [disp EXCEPT !.pc = IF r.outcome = "none" THEN "awaiting" ELSE "done",
                                    !.called = r.called, !.module = r.module,
                                    !.outcome = r.outcome, !.key = r.key]
            /\ pc' = IF r.outcome = "none" THEN "start" ELSE pc
            /\ sent' = sent \o r.sent
    /\ UNCHANGED <<task_id, timeout, poll_interval, clock, start_time, ret, task, result,
                   exc, fetches, sleeps, trace, nonterm, allRunning, maxLatency,
                   exactSleeps, shadow, fetchesDone>>
    /\ UNCHANGED <<client, clientVars, http, perr, pair, life>>

\* Lines 352-359 once the tool has ended: what it returned is wrapped; an
\* exception that is no Exception (CancelledError) passes `except Exception`.
DispatchReturn ==
    /\ disp.pc = "awaiting"
    /\ pc = "done"
    /\ LET r == IF ret = "raised" THEN Propagated(disp.module, <<>>)
                ELSE Succeeded(disp.module, <<>>)
       IN disp' = [disp EXCEPT !.pc = "done", !.outcome = r.outcome, !.key = r.key]
    /\ UNCHANGED <<pollVars, client, sent, clientVars, http, perr, pair, life>>

\* While the tool sleeps the loop runs other callbacks: a second call of
\* execute_fortimanager_tool, here one that ends without waiting.
DispatchSecond ==
    /\ disp.pc = "awaiting"
    /\ pc = "sleeping"
    /\ ~disp.second.made
    /\ \E c \in SecondCalls, reply \in ToolReplies :
         \E r \in {execute_fortimanager_tool(c[1], c[2], disp.loaded, client, St, reply)} :
            /\ r.outcome # "none"
            /\ disp' = [disp EXCEPT !.second =
                           [made |-> TRUE, tool_name |-> c[1], called |-> r.called,
                            outcome |-> r.outcome, key |-> r.key]]
            /\ sent' = sent \o r.sent
    /\ UNCHANGED <<task_id, timeout, poll_interval, client, clock, start_time, pc, ret, task,
                   result, exc, fetches, sleeps, trace, nonterm, allRunning, maxLatency,
                   exactSleeps, shadow, fetchesDone>>
    /\ UNCHANGED <<clientVars, http, perr, pair, life>>

\* The tool's own steps, the client disconnected by another callback while
\* it sleeps, and the cancellation of the call while it sleeps.
DispatchNext ==
    \/ DispatchCall
    \/ Start \/ SharedFetchReturn \/ SharedFetchRaise \/ SleepDone
    \/ DisconnectUnderPoller
    \/ Cancel
    \/ DispatchSecond
    \/ DispatchReturn

DispatchSpec == DispatchInit /\ [][DispatchNext]_vars

---------------------------------------------------------------------------
(* One request at the middleware. *)

AuthInit ==
    /\ PollIdle
    /\ client = "none"
    /\ sent = <<>>
    /\ connected = FALSE /\ fmg = 0 /\ created = 0 /\ logins = 0 /\ logouts = 0
    /\ ops = 0 /\ creds = "none"
    /\ out = IdleOut /\ pre = IdlePre /\ toolres = IdleTool
    /\ perr = IdlePerr
    /\ pair = IdlePair
    /\ life = IdleLife
    /\ disp = IdleDisp
    /\ \E type \in ScopeTypes, path \in Paths, headers \in HeaderLists, token \in TokenSettings :
          http = [scope |-> Scope(type, path, headers), token |-> token,
                  outcome |-> "pending"]

\* await AuthMiddleware.__call__(scope, receive, send)
AuthCall ==
    /\ http.outcome = "pending"
    /\ http' = [http EXCEPT !.outcome = AuthMiddleware(http.scope, http.token)]
    /\ UNCHANGED <<pollVars, client, sent, clientVars, perr, pair, life, disp>>

AuthNext == AuthCall

AuthSpec == AuthInit /\ [][AuthNext]_vars

---------------------------------------------------------------------------
(* One call of utils.errors.parse_fmg_error. *)

ErrorInit ==
    /\ PollIdle
    /\ client = "none"
    /\ sent = <<>>
    /\ connected = FALSE /\ fmg = 0 /\ created = 0 /\ logins = 0 /\ logouts = 0
    /\ ops = 0 /\ creds = "none"
    /\ out = IdleOut /\ pre = IdlePre /\ toolres = IdleTool
    /\ http = IdleHttp
    /\ pair = IdlePair
    /\ life = IdleLife
    /\ disp = IdleDisp
    /\ \E code \in ErrCodes, message \in ErrMessages, url \in UrlArgs :
          perr = [code |-> code, message |-> message, url |-> url,
                  result |-> NoFmgError, done |-> FALSE]

ParseCall ==
    /\ ~perr.done
    /\ perr' = [perr EXCEPT !.result = utils_parse_fmg_error(perr.code, perr.message, perr.url),
                            !.done = TRUE]
    /\ UNCHANGED <<pollVars, client, sent, clientVars, http, pair, life, disp>>

ErrorNext == ParseCall

ErrorSpec == ErrorInit /\ [][ErrorNext]_vars

---------------------------------------------------------------------------
(* The claims. *)

HasTask(r) == "task" \in DOMAIN r
Elapsed == clock - start_time
Ceil(a, b) == (a + b - 1) \div b
Mentions(msg, token) == \E k \in DOMAIN msg : msg[k] = token

\* C1: whenever a fetch returns a terminal state (done, error or cancelled, as
\* a string in any letter case or as the code 4, 5 or 3), the invocation
\* returns at once with completed = true, status "success" exactly for done
\* and status "error" for error and cancelled.
C1_TerminalOutcome ==
    (fetches > 0 /\ ReportsTerminal(task)) =>
        /\ pc = "done"
        /\ ret = "completed"
        /\ result.completed = TRUE
        /\ (result.status = "success") <=> ReportsState(task, TerminalDone)
        /\ (result.status = "error") <=>
               ReportsState(task, TerminalError \cup TerminalCancelled)

\* The spec's scenario: integer state 5 gives completed = true, no success.
C1_Witness ==
    /\ pc = "done"
    /\ task = TaskDict(IntVal(5), 0)
    /\ result.completed = TRUE
    /\ result.status = "error"

\* C2: when every fetch returned the state "running", the invocation ends only
\* by returning the timeout result: completed = false and a message that says
\* the task timed out; it raises nothing.
C2_TimeoutIsReturned ==
    (client = "connected" /\ allRunning) =>
        /\ ret \in {"none", "timeout"}
        /\ pc = "done" =>
              /\ ret = "timeout"
              /\ result.status = "error"
              /\ result.completed = FALSE
              /\ Mentions(result.message, " timed out after ")
              /\ Elapsed > timeout

C2_Witness ==
    /\ allRunning
    /\ fetches = 3
    /\ timeout = 2
    /\ poll_interval = 1
    /\ ret = "timeout"
    /\ result.completed = FALSE

\* C3: the outcome of a fetch that raises on the first call is never equal to
\* the outcome of a timeout of the same task_id and timeout, whatever the
\* exception is.
C3_FailureDiffersFromTimeout ==
    (pc = "done" /\ fetches = 1 /\ exc.origin = "fetch") =>
        (ret = "raised" \/ result # TimeoutResult(task_id, timeout))

\* C4: a failure of the fetch is the one exceptional outcome, and it
\* is propagated to the caller as an exception.
C4_FetchFailurePropagates ==
    pc = "done" => ((ret = "raised") <=> (exc.origin = "fetch"))

\* C5: for timeout > 0 and poll_interval > 0 an invocation performs at most
\* ceil(timeout / poll_interval) + 1 fetches, whatever the responses and the
\* latencies, each suspension lasting at least poll_interval.
C5_FetchBound ==
    (timeout > 0 /\ poll_interval > 0) =>
        fetches <= Ceil(timeout, poll_interval) + 1

\* The bound is met: timeout 2, poll_interval 1, three fetches.
C5_Witness ==
    /\ timeout = 2
    /\ poll_interval = 1
    /\ fetches = Ceil(timeout, poll_interval) + 1
    /\ maxLatency = 0

\* C6: an invocation fed the same responses with every integer state replaced
\* by its label (0 pending, 1 running, 4 done, 5 error, 3 cancelled) is at the
\* same place, has made the same number of fetches and returns the same status
\* and completed flag.
C6_CodeAsLabel ==
    /\ shadow.pc = pc
    /\ shadow.ret = ret
    /\ shadow.fetches = fetches
    /\ (pc = "done" /\ ret # "raised") =>
          /\ shadow.status = result.status
          /\ shadow.completed = result.completed

\* Integer 4 after an integer 1: success, as for "running" then "done".
C6_Witness ==
    /\ pc = "done"
    /\ fetches = 2
    /\ task = TaskDict(IntVal(4), 0)
    /\ shadow.status = "success"
    /\ shadow.completed = TRUE

\* The calls made so far are fetch, suspend, fetch, ... with nonterm
\* suspensions of poll_interval each.
FetchSuspendOrder(last) ==
    /\ sleeps = nonterm
    /\ Len(trace) = 2 * nonterm + last
    /\ \A k \in 1..Len(trace) :
          trace[k] = IF k % 2 = 1 THEN [ev |-> "fetch", arg |-> task_id]
                     ELSE [ev |-> "sleep", arg |-> poll_interval]

\* C7 as claimed: when the first n fetches return a non-terminal state and
\* fetch n+1 a terminal one, the invocation has made exactly n+1 fetches and
\* n suspensions of poll_interval each, in the order fetch, suspend, ...,
\* fetch, and has returned after the last fetch; and with
\* n * poll_interval <= timeout fetch n+1 is made: the invocation does not
\* end by the timeout after n non-terminal answers.
C7_ExactlyNPlusOne ==
    /\ (fetches > 0 /\ ReportsTerminal(task)) =>
          (pc = "done" /\ fetches = nonterm + 1 /\ FetchSuspendOrder(1))
    /\ (timeout > 0 /\ ret = "timeout") => nonterm * poll_interval > timeout

\* C7 as amended: the same order and counts whenever fetch n+1 is made and
\* reports a terminal state; the invocation ends by the timeout after n
\* non-terminal answers only when the time elapsed at that check, the n
\* suspensions and all the time the fetches and the wake-ups took, exceeds
\* timeout; n * poll_interval <= timeout rules that out when the fetches take
\* no time and every suspension lasts exactly poll_interval.
C7_FetchSuspendOrder ==
    /\ (fetches > 0 /\ ReportsTerminal(task)) =>
          /\ pc = "done"
          /\ fetches = nonterm + 1
          /\ FetchSuspendOrder(1)
          /\ nonterm * poll_interval <= timeout
          /\ exactSleeps => Elapsed <= nonterm * (poll_interval + maxLatency) + maxLatency
    /\ ret = "timeout" =>
          /\ fetches = nonterm
          /\ FetchSuspendOrder(0)
          /\ Elapsed > timeout
          /\ Elapsed >= nonterm * poll_interval
          /\ (exactSleeps /\ maxLatency = 0) =>
                (Elapsed = nonterm * poll_interval /\ nonterm * poll_interval > timeout)

\* The spec's scenario: running, running, done with poll_interval 1: success
\* after 2 seconds of suspension.
C7_Witness ==
    /\ pc = "done"
    /\ nonterm = 2
    /\ poll_interval = 1
    /\ task = TaskDict(StrVal(DONE), 100)
    /\ result.status = "success"
    /\ maxLatency = 0
    /\ Elapsed = 2

\* C8: the timeout result is returned at an elapsed time that exceeds timeout
\* by at most the latency of one fetch (the suspensions lasting exactly
\* poll_interval).
C8_OverrunAtMostOneFetch ==
    (ret = "timeout" /\ timeout > 0 /\ exactSleeps) =>
        Elapsed - timeout <= maxLatency

\* C9: the result carries the last-observed payload: the payload of the
\* terminal fetch on a terminal outcome, the payload of the last successful
\* fetch on a timeout that follows one.
C9_LastPayloadCarried ==
    (pc = "done" /\ ret \in {"completed", "timeout"} /\ task # Unbound) =>
        /\ HasTask(result)
        /\ result.task = task

\* C10: for timeout > 0 and poll_interval > 0 every invocation returns in the
\* end, every fetch and every suspension completing.
C10_Terminates ==
    (timeout > 0 /\ poll_interval > 0) => <>(pc = "done")

\* An invocation that polled for the whole budget and then returned.
C10_Witness ==
    /\ pc = "done"
    /\ timeout = MaxTimeout
    /\ poll_interval = 1
    /\ fetches = MaxTimeout + 1
    /\ ret = "timeout"

\* msg has the tokens of part in it, in order and next to each other.
Contains(msg, part) ==
    \E k \in 0..(Len(msg) - Len(part)) : SubSeq(msg, k + 1, k + Len(part)) = part

\* C11: after a status fetch has failed, the invocation is over: it makes no
\* further fetch and no further suspension, so the failed fetch is the last
\* call it made and every fetch but the last was followed by one suspension.
C11_NoRetryAfterFailure ==
    (exc.origin = "fetch") =>
        /\ pc = "done"
        /\ fetchesDone = fetches
        /\ sleeps = fetches - 1
        /\ trace[Len(trace)] = [ev |-> "fetch", arg |-> task_id]

\* The second fetch fails with an APIError: two fetches, one suspension.
C11_Witness ==
    /\ pc = "done"
    /\ exc.cls = "APIError"
    /\ ret = "except"
    /\ fetches = 2
    /\ sleeps = 1

\* C12: every request an invocation hands to the backend is a get of
\* /task/task/{task_id} for its own task_id, never an add, set, update,
\* delete or execute; there is at most one request per fetch, and the client
\* stays as connected, with the same handle and no login or logout, as it was.
C12_OnlyReadsOwnTask ==
    /\ \A k \in DOMAIN sent :
          /\ sent[k].method = "get"
          /\ sent[k].url = <<"/task/task/">> \o IntStr(task_id)
    /\ Len(sent) <= fetchesDone
    /\ St = (IF client = "connected" THEN ClientState(TRUE, 1, 1, 1, 0)
             ELSE ClientState(FALSE, 0, 0, 0, 0))
    /\ ops = 0

\* Two fetches answered, two requests sent.
C12_Witness ==
    /\ pc = "done"
    /\ ret = "completed"
    /\ fetches = 2
    /\ Len(sent) = 2
    /\ sent[2].url = <<"/task/task/", "1">>

\* The client was connected when the last call was made.
WasConnected == pre.st.connected /\ pre.st.fmg # 0
\* The last call was a tool function, called with no client initialized.
ToolWithoutClient == toolres.module # "none" /\ toolres.client = "none"

\* C13: a tool function called when get_fmg_client() returns None returns a
\* result that has the key "status" with the value "error" and the key
\* "message", and hands no request to the backend.
C13_NoClientStatusError ==
    ToolWithoutClient =>
        /\ "status" \in DOMAIN toolres.result
        /\ toolres.result.status = "error"
        /\ "message" \in DOMAIN toolres.result
        /\ toolres.sent = 0
        /\ Len(sent) = pre.nsent

\* C14: a request method (get, add, set, update, delete, execute or a method
\* built on them) called on a client that is not connected raises
\* ConnectionError, hands nothing to the backend and leaves the client as it
\* was.
C14_NotConnectedRaises ==
    (out.op = "call" /\ ~WasConnected) =>
        /\ out.res.kind = "raise"
        /\ out.res.cls = "ConnectionError"
        /\ Len(sent) = pre.nsent
        /\ St = pre.st

\* list_tasks on a client whose login failed: the handle is there, the
\* client is not connected.
C14_Witness ==
    /\ out.op = "call"
    /\ out.m.name = "list_tasks"
    /\ ~pre.st.connected
    /\ pre.st.fmg = 1
    /\ out.res.cls = "ConnectionError"
    /\ sent = <<>>

\* The backend answered the last call with a code and a payload.
Answered == out.op = "call" /\ Len(sent) = pre.nsent + 1 /\ ~out.reply.raised
\* A non-zero code raises an APIError that names the verb, the url and the
\* error text of the response.
RaisesNamedAPIError ==
    /\ out.res.kind = "raise"
    /\ out.res.cls = "APIError"
    /\ \E v \in {"GET", "ADD", "SET", "UPDATE", "DELETE", "EXEC"} :
          Contains(out.res.msg, <<v, " ">> \o out.m.url)
    /\ Contains(out.res.msg,
                IF out.reply.data.has_msg THEN out.reply.data.msg ELSE out.reply.data.repr)

\* C15 as claimed: every client operation returns the payload of a code-0
\* response unchanged and raises a naming APIError on any other code.
C15_PayloadUnchanged ==
    Answered =>
        IF out.reply.code = 0
        THEN out.res.kind = "return" /\ out.res.value = out.reply.data
        ELSE RaisesNamedAPIError

\* C15 as amended: the six generic operations and the methods that pass their
\* result on return the payload of a code-0 response unchanged; a list method
\* returns a list payload unchanged, a one-element list of any other truthy
\* payload and the empty list for a falsy one; the policy count returns an
\* int payload unchanged and 0 otherwise.  Any other code raises an APIError
\* whose message names the operation and the error, for every method.
C15_PayloadAsMethodReturns ==
    Answered =>
        IF out.reply.code = 0
        THEN /\ out.res.kind = "return"
             /\ out.m.post = "none" => out.res.value = out.reply.data
             /\ out.m.post = "list" =>
                   /\ out.res.value.kind = "list"
                   /\ out.reply.data.kind = "list" => out.res.value = out.reply.data
                   /\ out.reply.data.kind # "list" =>
                         /\ out.res.value.n =
                               (IF out.reply.data.kind = "none" \/ out.reply.data.n = 0
                                THEN 0 ELSE 1)
                         /\ out.res.value.n = 1 =>
                               out.res.value.repr = <<"[">> \o PyRepr(out.reply.data) \o <<"]">>
             /\ out.m.post = "int" =>
                   /\ out.res.value.kind = "int"
                   /\ out.res.value.n = (IF out.reply.data.kind = "int" THEN out.reply.data.n ELSE 0)
        ELSE RaisesNamedAPIError

\* A delete answered with code -3: an APIError, nothing returned.
C15_Witness ==
    /\ Answered
    /\ out.m.name = "delete"
    /\ out.reply.code = -3
    /\ out.res.cls = "APIError"
    /\ out.res.msg = <<"DELETE", " ", "/dvmdb/adom/root/device", ": ",
                       "Object not found", " - ", "Object does not exist">>

\* C16: connect called on a connected client returns without raising and
\* changes nothing: no login, no new handle, the same handle, is_connected
\* true, nothing handed to the backend.
C16_ConnectTwiceChangesNothing ==
    (out.op = "connect" /\ WasConnected) =>
        /\ out.res.kind = "return"
        /\ logins = pre.st.logins
        /\ created = pre.st.created
        /\ fmg = pre.st.fmg
        /\ connected /\ fmg # 0
        /\ logouts = pre.st.logouts
        /\ Len(sent) = pre.nsent

\* The second connect of a client: still the one login and the first handle.
C16_Witness ==
    /\ out.op = "connect"
    /\ WasConnected
    /\ ops = 2
    /\ logins = 1
    /\ fmg = 1
    /\ connected

\* C17 as claimed: after disconnect has returned, is_connected is false and
\* the handle is cleared, whatever logout did; disconnect never raises; on a
\* client that was not connected it changes nothing and calls no logout.
C17_DisconnectClearsHandle ==
    (out.op = "disconnect") =>
        /\ out.res.kind = "return"
        /\ ~connected
        /\ fmg = 0
        /\ ~WasConnected => (St = pre.st /\ logouts = pre.st.logouts)

\* C17 as amended: is_connected is false after disconnect, however it is
\* left.  On a connected client it calls logout once and clears the handle;
\* an Exception of logout is caught, and only an exception of logout that is
\* no Exception leaves disconnect, after the handle is cleared.  On a client
\* that is not connected it returns, does nothing and calls no logout, so a
\* handle that a failed login left behind stays.
C17_DisconnectClearsConnected ==
    (out.op = "disconnect") =>
        /\ ~(connected /\ fmg # 0)
        /\ WasConnected =>
              /\ ~connected
              /\ fmg = 0
              /\ logouts = pre.st.logouts + 1
              /\ logins = pre.st.logins
              /\ (out.res.kind = "raise") <=> (out.reply.raised /\ out.reply.interrupt)
              /\ out.res.kind = "raise" => out.res = Interrupt
        /\ ~WasConnected => (St = pre.st /\ out.res.kind = "return")
        /\ Len(sent) = pre.nsent

\* logout raised an Exception: disconnect returns and the client is
\* disconnected all the same.
C17_Witness ==
    /\ out.op = "disconnect"
    /\ WasConnected
    /\ out.reply.raised
    /\ ~out.reply.interrupt
    /\ out.res.kind = "return"
    /\ ~connected
    /\ fmg = 0
    /\ logouts = 1

\* The request is one the middleware checks: http or websocket, not /health,
\* a token configured.
Checked ==
    /\ http.scope.type \in {"http", "websocket"}
    /\ http.scope.path # <<"/health">>
    /\ ~http.token.is_none
    /\ http.token.text # <<>>
\* Some Authorization header of the request is exactly "Bearer <token>".
HasBearer ==
    \E k \in DOMAIN http.scope.headers :
        /\ http.scope.headers[k].name = "authorization"
        /\ http.scope.headers[k].value = [utf8 |-> TRUE, text |-> <<"Bearer ">> \o http.token.text]

\* C18: a checked request reaches the application only if it carries the
\* header "Bearer <token>", and every other checked request is answered with
\* 401; a request that is not checked reaches the application.
C18_BearerOrUnauthorized ==
    (http.outcome \notin {"idle", "pending"}) =>
        IF Checked
        THEN /\ http.outcome = "app" => HasBearer
             /\ http.outcome # "app" => http.outcome = "401"
        ELSE http.outcome = "app"

\* The classes the tests expect, code by code.
ExpectedClasses ==
    { <<-1, "APIError">>, <<-2, "AuthenticationError">>, <<-3, "PermissionError">>,
      <<-4, "ResourceNotFoundError">>, <<-5, "ValidationError">>, <<-6, "ObjectError">>,
      <<-7, "ObjectError">>, <<-8, "ADOMLockError">>, <<-9, "ADOMLockError">>,
      <<-10, "APIError">>, <<-11, "TimeoutError">>, <<-20, "AuthenticationError">>,
      <<-21, "AuthenticationError">> }

\* C19: parse_fmg_error returns the mapped class for a mapped code and
\* APIError for any other code, with the code attribute equal to the code
\* given and, when a url is given, a message that contains it.
C19_MappedClassCodeUrl ==
    perr.done =>
        /\ \A p \in ExpectedClasses : perr.code = p[1] => perr.result.cls = p[2]
        /\ (\A p \in ExpectedClasses : perr.code # p[1]) => perr.result.cls = "APIError"
        /\ perr.result.code = perr.code
        /\ ~perr.url.is_none => Contains(perr.result.msg, perr.url.text)

\* Code -11 with a url: a TimeoutError that names the endpoint.
C19_Witness ==
    /\ perr.done
    /\ perr.code = -11
    /\ perr.message = <<"no such object">>
    /\ perr.url.text = <<"/dvmdb/adom/root/device">>
    /\ perr.result.cls = "TimeoutError"
    /\ perr.result.msg = <<"Operation timed out", ": ", "no such object",
                           " (endpoint: ", "/dvmdb/adom/root/device", ")">>

\* C20: at most one fetch is outstanding at any time, and a fetch starts only
\* at the entry of the invocation or when the suspension that followed the
\* previous, completed fetch has ended, poll_interval or more after it began.
C20_SequentialFetches ==
    [][ /\ fetches' - fetchesDone' \in {0, 1}
        /\ fetches' # fetches =>
              /\ fetches' = fetches + 1
              /\ fetchesDone = fetches
              /\ pc \in {"start", "sleeping"}
              /\ pc = "sleeping" =>
                    /\ sleeps = fetches
                    /\ trace[Len(trace)].ev = "sleep"
                    /\ clock' >= clock + poll_interval ]_vars

\* Three fetches, each completed, a suspension between them.
C20_Witness ==
    /\ pc = "done"
    /\ fetches = 3
    /\ fetchesDone = 3
    /\ sleeps = 2
    /\ ret = "completed"

\* C21: an invocation has an outcome exactly when it is over, and once it has
\* one (terminal, timed out, fetch failed) nothing changes any more: no fetch,
\* no suspension, no other outcome, no other result.
C21_OutcomesAbsorbing ==
    /\ [](pc = "done" <=> ret # "none")
    /\ [][ret # "none" =>
            /\ ret' = ret
            /\ result' = result
            /\ pc' = pc
            /\ fetches' = fetches
            /\ sleeps' = sleeps
            /\ trace' = trace]_vars

\* Timed out after two fetches and two suspensions.
C21_Witness ==
    /\ pc = "done"
    /\ ret = "timeout"
    /\ timeout = 1
    /\ poll_interval = 1
    /\ fetches = 2
    /\ sleeps = 2

\* C22: an invocation cancelled while suspended between polls ends there: the
\* suspension is its last call, no fetch is outstanding or follows, the
\* CancelledError leaves wait_for_task and no result is returned, neither an
\* error nor a timeout; the client is as it was.
C22_CancelPropagates ==
    (exc.origin = "cancel") =>
        /\ pc = "done"
        /\ ret = "raised"
        /\ result = NoResult
        /\ fetchesDone = fetches
        /\ sleeps = fetches
        /\ trace[Len(trace)] = [ev |-> "sleep", arg |-> poll_interval]
        /\ St = ClientState(TRUE, 1, 1, 1, 0)
        /\ Len(sent) <= fetches

\* Cancelled in the second suspension.
C22_Witness ==
    /\ exc.cls = "CancelledError"
    /\ pc = "done"
    /\ fetches = 2
    /\ sleeps = 2
    /\ ret = "raised"
\* Every fetch made so far has returned a dict with a non-terminal state, but
\* for a last one that raised.
OnlyNonTerminal ==
    /\ fetches > 0
    /\ fetchesDone = nonterm + (IF exc.origin = "fetch" THEN 1 ELSE 0)

\* C24: a fetched dict whose state is not done, error or cancelled (in any
\* letter case, or 4, 5, 3) never ends the poll: not an unmapped code, not
\* "cancelling", not a missing state, not a state that is neither string nor
\* integer.  An invocation that has fetched only such dicts is still polling
\* or has ended by the timeout or by a failure of its last fetch, and
\* completed is false in what it returns.
C24_UnknownStateKeepsPolling ==
    /\ (fetches > 0 /\ task.kind = "dict" /\ ~ReportsTerminal(task)) => ret # "completed"
    /\ OnlyNonTerminal =>
          /\ ret \in {"none", "timeout", "except", "raised"}
          /\ ret \in {"except", "raised"} => exc.origin = "fetch"
          /\ ret \in {"timeout", "except"} => result.completed = FALSE

\* Two fetches of non-terminal states, the last one "cancelling": timed out.
C24_Witness ==
    /\ OnlyNonTerminal
    /\ ret = "timeout"
    /\ task = TaskDict(StrVal(CANCELLING), 0)
    /\ fetches = 2
    /\ nonterm = 2

\* C25: the timeout is looked at only before a fetch is started: a fetch is
\* outstanding only if the elapsed time was within timeout when it began, the
\* timeout result is never produced right after a fetch, and a terminal state
\* that a fetch returns is reported with completed = true however much time
\* has passed by then.
C25_TimeoutOnlyBeforeFetch ==
    /\ pc = "fetching" => Elapsed <= timeout
    /\ ret = "timeout" =>
          /\ fetchesDone = fetches
          /\ trace # <<>> => trace[Len(trace)].ev = "sleep"
    /\ (fetches > 0 /\ ReportsTerminal(task)) =>
          /\ ret = "completed"
          /\ result.completed = TRUE
          /\ result.task = task

\* The fetch began within the timeout and returned "done" after it.
C25_Witness ==
    /\ ret = "completed"
    /\ result.completed = TRUE
    /\ result.status = "success"
    /\ timeout > 0
    /\ Elapsed > timeout
\* C26: whatever connect and disconnect calls have been made, the connected
\* flag is set only while a backend handle is present, and after a connect
\* that raised (no credentials, login refused, login raising) is_connected
\* is false.
C26_ConnectedImpliesHandle ==
    /\ connected => fmg # 0
    /\ (out.op = "connect" /\ out.res.kind = "raise") =>
          /\ ~(connected /\ fmg # 0)
          /\ out.res.cls \in {"AuthenticationError", "ConnectionError"}
    /\ (out.op = "connect" /\ out.res.kind = "return") => (connected /\ fmg # 0)

\* Two connects that failed, the second by an exception of login.
C26_Witness ==
    /\ out.op = "connect"
    /\ out.res.cls = "ConnectionError"
    /\ ops = 2
    /\ logins = 2
    /\ fmg = 2
    /\ ~connected
Disconnected == client = "connected" /\ out.op = "disconnect" /\ ~connected

\* C27: once the shared client has been disconnected, the invocation sends
\* nothing more and makes at most one more fetch; that fetch fails with
\* ConnectionError and the invocation returns status "error", completed =
\* false and the message of the error there and then, the timeout not being
\* awaited; nobody logs in again.
C27_DisconnectEndsPoll ==
    Disconnected =>
        /\ Len(sent) = pre.nsent
        /\ fetches <= pre.nsent + 1
        /\ sleeps <= pre.nsent + 1
        /\ logins = 1 /\ created = 1
        /\ fetchesDone > pre.nsent =>
              /\ pc = "done"
              /\ ret = "except"
              /\ exc.cls = "ConnectionError"
              /\ result = [status |-> "error", completed |-> FALSE,
                           message |-> <<"Not connected. Call connect() first.">>]
              /\ Elapsed <= timeout + maxLatency
        /\ pc = "done" => (ret = "timeout" \/ fetchesDone > pre.nsent)

\* Disconnected in the first suspension of a poll with the timeout 10: the
\* second fetch fails and the invocation returns long before the timeout.
C27_Witness ==
    /\ Disconnected
    /\ timeout = 10
    /\ pc = "done"
    /\ ret = "except"
    /\ fetches = 2
    /\ Len(sent) = 1
    /\ Elapsed < timeout
\* The requests sent for task tid.
RequestsFor(tid) == Cardinality({ k \in DOMAIN sent : sent[k] = Request(get_task(tid)) })

\* C23: with another invocation on the same client, each invocation makes
\* the fetches and takes the exit it would have made and taken alone with the
\* same responses to its own fetches, the same timeout and the same
\* poll_interval (and the same fetch latencies and the same lateness of its
\* own timers).
C23_AsAlone ==
    \A i \in DOMAIN pair.inv : pair.inv[i].as_alone

\* What the two invocations do keep apart: each sends requests for its own
\* task only, one per fetch; its result is computed from the last response to
\* its own fetch, its own timeout and its own task_id; the client stays
\* connected. An invocation departs from its course alone in one way only:
\* held up by the fetch of the other, it takes the timeout exit where alone
\* it would have fetched again.
PairKeepsApart ==
    \A i \in DOMAIN pair.inv :
        LET v == pair.inv[i]
        IN /\ RequestsFor(v.task_id) = v.requests
           /\ Len(sent) = pair.inv[1].requests + pair.inv[2].requests
           /\ v.fetches <= v.timeout \div v.poll_interval + 1
           /\ v.pc = "sleeping" => (v.fetches > 0 /\ ~ReportsTerminal(v.got))
           /\ v.ret = "completed" =>
                 /\ ReportsTerminal(v.got)
                 /\ v.result = CompletedResult(v.got, NormalizeState(v.got))
           /\ v.ret = "timeout" =>
                 /\ v.result = TimeoutResult(v.task_id, v.timeout)
                 /\ pair.clock - v.start_time > v.timeout
           /\ ~v.as_alone => (v.pc = "done" /\ v.ret = "timeout")
           /\ connected /\ fmg = LiveClient.fmg /\ logins = LiveClient.logins

\* C29: while the server serves, get_fmg_client() returns None or a client
\* whose connect succeeded; when the host is not configured or the client
\* cannot be brought up the global client is None and the server starts all
\* the same; once the server has shut down, disconnect has been called
\* exactly once if the global client is not None and not at all if it is.
C29_LifespanClient ==
    /\ life.phase = "serving" => (client = "none" \/ is_connected(St))
    /\ life.seen \in {"nothing", "none", "connected"}
    /\ (life.phase # "startup" /\ (~life.host \/ life.bringup_failed)) =>
           (client = "none" /\ life.phase # "failed")
    /\ life.phase = "stopped" =>
           life.disconnects = (IF client # "none" THEN 1 ELSE 0)
\* C30: execute_fortimanager_tool calls a function only when tool_name is the
\* name of a tool of the seven tool modules; for every other name (one that
\* starts with "_", an imported helper, any other module attribute, a name
\* no module has) it calls nothing and returns the "Tool ... not found"
\* error; it never raises.
C30_OnlyToolsAreRun ==
    /\ (disp.pc = "done" /\ disp.tool_name \in DispatchNames) =>
        /\ disp.called # "nothing" => disp.tool_name \in ToolNames
        /\ (disp.tool_name.is_str /\ disp.tool_name \notin ToolNames) =>
               (disp.called = "nothing" /\ disp.key = "not found")
        /\ disp.outcome = "returned"
    /\ disp.second.made =>
        /\ disp.second.called # "nothing" => disp.second.tool_name \in ToolNames
        /\ (disp.second.tool_name.is_str /\ disp.second.tool_name \notin ToolNames) =>
               (disp.second.called = "nothing" /\ disp.second.key = "not found")
        /\ disp.second.outcome = "returned"
====
